---- MODULE Spec2Model ----
(***************************************************************************)
(* Session registry of the medical device encryption module                *)
(* (medical_device_encryption.rs): register_medical_device and             *)
(* encrypt_patient_data over the shared device registry, the per-call IV   *)
(* derivation, the CBC path with its padding and the stream cipher path.   *)
(*                                                                         *)
(* Bytes are naturals 0..255 wherever the code computes them from the      *)
(* caller's inputs (device id, counter, clock, payload, padding).  The     *)
(* outputs of the digest compression, of the block transform and of the    *)
(* keystream generator are kept as terms over the exact inputs the code    *)
(* feeds them: a term byte [of |-> t, ix |-> i] is byte i of the output    *)
(* named by t.  Two term bytes are equal exactly when the code computed    *)
(* them from the same inputs.                                              *)
(***************************************************************************)
EXTENDS Integers, Sequences, FiniteSets, TLC

\* ------------------------------------------------------------------------
\* Program constants
\* ------------------------------------------------------------------------
MEDICAL_BLOCK_SIZE == 16
PATIENT_KEY_SIZE == 32
DEVICE_ID_LENGTH == 12
DIGEST_OUTPUT_SIZE == 20
ITERATION_COUNT == 1000
ROUND_KEY_COUNT == 15
NONCE_SIZE == 8
KEYSTREAM_BLOCK_SIZE == 64

\* ------------------------------------------------------------------------
\* Bounds of the model and the inputs the calls are made with
\* ------------------------------------------------------------------------
\* number of register/encrypt calls in one run
MaxCalls == 4
\* the clock returns ClockStride * k for k in 0..MaxClock
MaxClock == 1
ClockStride == 257
\* longest payload
MaxLen == 18

Clock == { ClockStride * k : k \in 0..MaxClock }
Epoch == {0}

\* "MED_DEV_0001", "MED_DEV_0002": ids of the required length
DEV_A == <<77, 69, 68, 95, 68, 69, 86, 95, 48, 48, 48, 49>>
DEV_B == <<77, 69, 68, 95, 68, 69, 86, 95, 48, 48, 48, 50>>
\* "MED_DEV_001" (the id main() registers, 11 bytes) and a 13-byte id
DEV_SHORT == <<77, 69, 68, 95, 68, 69, 86, 95, 48, 48, 49>>
DEV_LONG == <<77, 69, 68, 95, 68, 69, 86, 95, 48, 48, 48, 49, 48>>
DeviceIds == {DEV_A, DEV_B, DEV_SHORT, DEV_LONG}

\* patient identifiers "P1", "P2"
Patients == { <<80, 49>>, <<80, 50>> }

\* payloads: byte i of the payload of length n is i
Payload(n) == [i \in 1..n |-> i]
Payloads == { Payload(n) : n \in 0..MaxLen }
\* one payload for each path of encrypt
TwoPayloads == { Payload(n) : n \in {5, MaxLen} }

\* ------------------------------------------------------------------------
\* Byte arithmetic
\* ------------------------------------------------------------------------
RECURSIVE XorBits(_, _, _)
XorBits(a, b, n) ==
    IF n = 0 THEN 0
    ELSE (((a % 2) + (b % 2)) % 2) + 2 * XorBits(a \div 2, b \div 2, n - 1)

\* u8 ^ u8
Xor8(a, b) == XorBits(a, b, 8)

\* (x >> (i * 8)) & 0xFF
RECURSIVE ShiftRightBytes(_, _)
ShiftRightBytes(x, i) == IF i = 0 THEN x ELSE ShiftRightBytes(x \div 256, i - 1)

ByteAt(x, i) == ShiftRightBytes(x, i) % 256

\* u64::to_be_bytes: byte j (1..8) of the big-endian encoding
to_be_bytes(x) == [j \in 1..8 |-> ByteAt(x, 8 - j)]


Min(a, b) == IF a < b THEN a ELSE b

\* ------------------------------------------------------------------------
\* Bytes handled by the engines
\*   [lit |-> n]          a byte whose value n the model computes
\*   [of |-> t, ix |-> i] byte i of the engine output named by the term t
\*   [xor |-> <<a, b>>]   a ^ b with at least one operand a term byte
\* ------------------------------------------------------------------------
Lit(n) == [lit |-> n]
IsLit(b) == "lit" \in DOMAIN b
IsTermByte(b) == "ix" \in DOMAIN b
IsRun(b) == "from" \in DOMAIN b
LitSeq(s) == [i \in 1..Len(s) |-> Lit(s[i])]
TermBytes(t, n) == [i \in 1..n |-> [of |-> t, ix |-> i]]

\* u8 ^ u8 on engine bytes
XorByte(a, b) ==
    IF IsLit(a) /\ IsLit(b) THEN Lit(Xor8(a.lit, b.lit)) ELSE [xor |-> <<a, b>>]

\* A byte sequence as it is written inside a term: a run of consecutive
\* bytes i..j of one output t is folded into [of |-> t, from |-> i, to |-> j].
\* Pack is injective, so terms are equal iff their byte sequences are.
PackByte(b) == IF IsTermByte(b) THEN [of |-> b.of, from |-> b.ix, to |-> b.ix] ELSE b

PackJoin(l, r) ==
    IF /\ Len(l) > 0
       /\ Len(r) > 0
       /\ IsRun(l[Len(l)])
       /\ IsRun(r[1])
       /\ r[1].from = l[Len(l)].to + 1
       /\ r[1].of = l[Len(l)].of
    THEN SubSeq(l, 1, Len(l) - 1)
         \o <<[of |-> r[1].of, from |-> l[Len(l)].from, to |-> r[1].to]>>
         \o Tail(r)
    ELSE l \o r

RECURSIVE Pack(_)
Pack(s) ==
    IF Len(s) = 0 THEN <<>>
    ELSE IF Len(s) = 1 THEN <<PackByte(s[1])>>
    ELSE PackJoin(Pack(SubSeq(s, 1, Len(s) \div 2)),
                  Pack(SubSeq(s, (Len(s) \div 2) + 1, Len(s))))

\* ------------------------------------------------------------------------
\* MedicalHashProcessor and KeyDerivationFunction
\* ------------------------------------------------------------------------
\* reset(); update(msg); finalize(): the 20-byte digest of msg.  The term
\* names the message and the number of times the digest was fed back.
HashChain(msg, n) == [seed |-> Pack(msg), rounds |-> n]
MedicalHash(msg) == HashChain(msg, 1)
DigestBytes(d) == TermBytes(d, DIGEST_OUTPUT_SIZE)

\* MedicalHashProcessor as the code drives it: the 64-byte buffer, its
\* cursor and the message length are the code's; state is kept as the
\* blocks compressed into it since the initial constants; panic is set by
\* a write at an index the buffer does not have
HASH_BLOCK_SIZE == 64
LENGTH_OFFSET == 56
PAD_MARK == 128

NewHashProcessor ==
    [state |-> <<>>, buffer |-> [i \in 0..(HASH_BLOCK_SIZE - 1) |-> 0],
     message_length |-> 0, buffer_position |-> 0, panic |-> FALSE]

\* reset
reset(h) == NewHashProcessor

\* process_block: the compression of state with the buffer as it stands
process_block(h) ==
    [h EXCEPT !.state = Append(@, [i \in 1..HASH_BLOCK_SIZE |-> h.buffer[i - 1]])]

\* self.buffer[self.buffer_position] = byte; self.buffer_position += 1
WriteByte(h, byte) ==
    IF h.panic \/ h.buffer_position >= HASH_BLOCK_SIZE
    THEN [h EXCEPT !.panic = TRUE]
    ELSE [h EXCEPT !.buffer[h.buffer_position] = byte,
                   !.buffer_position = @ + 1]

\* the loop of update from byte i of data on
RECURSIVE UpdateLoop(_, _, _)
UpdateLoop(h, data, i) ==
    IF h.panic \/ i > Len(data) THEN h
    ELSE LET written == WriteByte(h, data[i])
         IN  UpdateLoop(IF written.buffer_position = HASH_BLOCK_SIZE
                        THEN [process_block(written) EXCEPT !.buffer_position = 0]
                        ELSE written,
                        data, i + 1)

update(h, data) ==
    UpdateLoop([h EXCEPT !.message_length = @ + Len(data)], data, 1)

\* while self.buffer_position < limit { write 0 }
RECURSIVE ZeroFill(_, _)
ZeroFill(h, limit) ==
    IF h.panic \/ h.buffer_position >= limit THEN h
    ELSE ZeroFill(WriteByte(h, 0), limit)

\* self.buffer[56..64].copy_from_slice(&length_bytes)
WriteLength(h) ==
    LET length_bytes == to_be_bytes(h.message_length * 8)
    IN  [h EXCEPT !.buffer = [i \in 0..(HASH_BLOCK_SIZE - 1) |->
                                IF i >= LENGTH_OFFSET
                                THEN length_bytes[i - LENGTH_OFFSET + 1]
                                ELSE h.buffer[i]]]

\* the extra block is taken only when the cursor is past the buffer's end
finalize_late_extra_block(h) ==
    LET marked == WriteByte(h, PAD_MARK)
        spilled == IF marked.buffer_position > HASH_BLOCK_SIZE
                   THEN [process_block(ZeroFill(marked, HASH_BLOCK_SIZE))
                            EXCEPT !.buffer_position = 0]
                   ELSE marked
        done == process_block(WriteLength(ZeroFill(spilled, LENGTH_OFFSET)))
    IN  [self |-> done,
         digest |-> TermBytes([state |-> done.state], DIGEST_OUTPUT_SIZE)]

\* finalize: the mark, the extra block when the length does not fit, the
\* zeros, the length, the last compression, and the 20 bytes of state
finalize(h) ==
    LET marked == WriteByte(h, PAD_MARK)
        spilled == IF marked.buffer_position > LENGTH_OFFSET
                   THEN [process_block(ZeroFill(marked, HASH_BLOCK_SIZE))
                            EXCEPT !.buffer_position = 0]
                   ELSE marked
        done == process_block(WriteLength(ZeroFill(spilled, LENGTH_OFFSET)))
    IN  [self |-> done,
         digest |-> TermBytes([state |-> done.state], DIGEST_OUTPUT_SIZE)]

\* ------------------------------------------------------------------------
\* The calls on hash processors, operation by operation
\* ------------------------------------------------------------------------
HashCall(call, data) == [call |-> call, data |-> data]

\* compute_medical_hash without the reset
compute_medical_hash_no_reset(data) ==
    <<HashCall("update", data), HashCall("finalize", <<>>)>>
\* compute_medical_hash: the calls it issues on self.hash_processor
compute_medical_hash(data) ==
    <<HashCall("reset", <<>>), HashCall("update", data), HashCall("finalize", <<>>)>>

\* the rounds of the step_by(DIGEST_OUTPUT_SIZE) loop of derive_patient_key
ExtensionRounds ==
    IF DIGEST_OUTPUT_SIZE >= PATIENT_KEY_SIZE THEN 0
    ELSE (PATIENT_KEY_SIZE - 1) \div DIGEST_OUTPUT_SIZE

\* the number of calls derive_patient_key issues on its own processor
DeriveCallCount == 3 * ITERATION_COUNT + 4 * ExtensionRounds

\* call number k of derive_patient_key on its own processor: reset, update,
\* finalize in every iteration, then reset, update, update, finalize in
\* every round of the extension
derive_patient_key_call(k) ==
    IF k <= 3 * ITERATION_COUNT
    THEN <<"reset", "update", "finalize">>[((k - 1) % 3) + 1]
    ELSE <<"reset", "update", "update", "finalize">>[((k - 3 * ITERATION_COUNT - 1) % 4) + 1]

\* where a processor is after a call
AfterCall(phase, call) ==
    IF call = "reset" THEN "reset"
    ELSE IF call = "update" THEN "updated"
    ELSE "finalized"

\* no operation made yet: the module's processor as new leaves it, no
\* processor of a key derivation
NoHashUse ==
    [pc |-> "idle", k |-> 0, data |-> <<>>, ops |-> 0,
     phase |-> [module |-> "new", local |-> "none"],
     issued |-> [on |-> "none", call |-> "none", before |-> "none"],
     returned |-> {}]

\* KeyDerivationFunction::new
NewSalt == [i \in 1..16 |-> 0]

\* b"MedicalDeviceSalt"
BASE_SALT == <<77, 101, 100, 105, 99, 97, 108, 68, 101, 118, 105, 99, 101, 83, 97, 108, 116>>

\* initialize_salt: self.salt[..base_salt.len()].copy_from_slice(base_salt);
\* the slice of the salt panics when the salt is shorter than base_salt
initialize_salt(salt) ==
    IF Len(BASE_SALT) > Len(salt)
    THEN [panic |-> TRUE, salt |-> salt]
    ELSE [panic |-> FALSE,
          salt |-> [i \in 1..Len(salt) |->
                      IF i <= Len(BASE_SALT) THEN BASE_SALT[i] ELSE salt[i]]]

\* the step_by(DIGEST_OUTPUT_SIZE) loop that fills key[i..] from
\* Hash(input || i as u8)
RECURSIVE ExtendKey(_, _, _)
ExtendKey(key, input, i) ==
    IF i >= PATIENT_KEY_SIZE THEN key
    ELSE LET additional_digest == DigestBytes(MedicalHash(input \o <<Lit(i % 256)>>))
             copy_len == Min(Len(additional_digest), PATIENT_KEY_SIZE - i)
         IN  ExtendKey([k \in 1..PATIENT_KEY_SIZE |->
                          IF k > i /\ k <= i + copy_len
                          THEN additional_digest[k - i] ELSE key[k]],
                       input, i + DIGEST_OUTPUT_SIZE)

\* the bytes past the digest are left as the zeros key starts with
derive_patient_key_no_extension(salt, device_id, patient_id) ==
    LET seed == LitSeq(salt \o device_id \o patient_id)
        input == DigestBytes(HashChain(seed, ITERATION_COUNT))
        zero_key == [k \in 1..PATIENT_KEY_SIZE |-> Lit(0)]
    IN  IF Len(input) >= PATIENT_KEY_SIZE
        THEN SubSeq(input, 1, PATIENT_KEY_SIZE)
        ELSE [k \in 1..PATIENT_KEY_SIZE |->
                 IF k <= Len(input) THEN input[k] ELSE zero_key[k]]

derive_patient_key(salt, device_id, patient_id) ==
    LET seed == LitSeq(salt \o device_id \o patient_id)
        \* for _ in 0..iteration_count { input = Hash(input) }
        input == DigestBytes(HashChain(seed, ITERATION_COUNT))
        zero_key == [k \in 1..PATIENT_KEY_SIZE |-> Lit(0)]
    IN  IF Len(input) >= PATIENT_KEY_SIZE
        THEN SubSeq(input, 1, PATIENT_KEY_SIZE)
        ELSE ExtendKey([k \in 1..PATIENT_KEY_SIZE |->
                          IF k <= Len(input) THEN input[k] ELSE zero_key[k]],
                       input, Len(input))

\* ------------------------------------------------------------------------
\* SymmetricEncryptionEngine
\* ------------------------------------------------------------------------
\* A u32 of round 0 is the four key bytes it was read from, most
\* significant first.
ZeroWord == <<Lit(0), Lit(0), Lit(0), Lit(0)>>

\* key_words[i] for i in 0..8: read big-endian when the key has the bytes
key_words(master_key) ==
    [i \in 0..7 |->
        IF i * 4 + 3 < Len(master_key)
        THEN SubSeq(master_key, i * 4 + 1, i * 4 + 4)
        ELSE ZeroWord]

\* round_keys[round][i] for round >= 1 is computed from round_keys[round-1]
\* alone (rotate, substitute, round constant, xor), and round 0 is
\* key_words[0..4]: the word is a function of (round, i) and of round 0 of
\* the array it sits in.  setup_key_schedule writes all 15 rounds and is
\* the only writer, so the word is named by (round, i) alone.
ExpandedWord(round, i) == [rk |-> round, w |-> i]

setup_key_schedule(master_key) ==
    LET kw == key_words(master_key)
    IN  [round \in 0..(ROUND_KEY_COUNT - 1) |->
           IF round = 0 THEN [i \in 0..3 |-> kw[i]]
           ELSE [i \in 0..3 |-> ExpandedWord(round, i)]]

\* the schedule as it is written inside a term: round 0 alone when the
\* other rounds are the ones expanded from it, every round otherwise
ScheduleBytes(round_keys) ==
    LET r0 == round_keys[0]
        from == Pack(r0[0] \o r0[1] \o r0[2] \o r0[3])
    IN  IF \A round \in 1..(ROUND_KEY_COUNT - 1) : \A i \in 0..3 :
               round_keys[round][i] = ExpandedWord(round, i)
        THEN [expanded |-> from]
        ELSE [words |-> round_keys]

\* encrypt_block: 14 rounds over the 16-byte state with the engine's
\* round_keys; the output block is a function of (round_keys, plaintext)
encrypt_block(round_keys, plaintext) ==
    TermBytes([E |-> Pack(plaintext), rk |-> ScheduleBytes(round_keys)],
              MEDICAL_BLOCK_SIZE)

\* ------------------------------------------------------------------------
\* SymmetricEncryptionEngine on bytes: the tables, the key schedule and the
\* rounds of encrypt_block computed as the code computes them.  The 4x4
\* state and a round key are kept flat: state[4 i + j + 1] is state[i][j].
\* ------------------------------------------------------------------------
\* a ^ b on u8, a nibble at a time
XorTable == [a \in 0..15 |-> [b \in 0..15 |-> XorBits(a, b, 4)]]
BitXor(a, b) == 16 * XorTable[a \div 16][b \div 16] + XorTable[a % 16][b % 16]

\* one entry of initialize_substitution_table, in u8 arithmetic
SubstitutionValue(i) ==
    LET multiplied == (i * 17) % 256
        folded == BitXor(multiplied, multiplied \div 16)
        masked == BitXor(folded, 99)
        rotated_1 == ((masked * 2) % 256) + (masked \div 128)
        rotated_3 == ((masked * 8) % 256) + (masked \div 32)
    IN  BitXor(rotated_1, rotated_3)

substitution_table == [i \in 0..255 |-> SubstitutionValue(i)]

mix_columns_matrix ==
    <<<<2, 3, 1, 1>>, <<1, 2, 3, 1>>, <<1, 1, 2, 3>>, <<3, 1, 1, 2>>>>

\* galois_multiply: the 8 steps of the loop from step n on
RECURSIVE GaloisLoop(_, _, _, _)
GaloisLoop(a, b, result, n) ==
    IF n = 8 THEN result
    ELSE LET added == IF b % 2 = 1 THEN BitXor(result, a) ELSE result
             shifted == (a * 2) % 256
             reduced == IF a >= 128 THEN BitXor(shifted, 27) ELSE shifted
         IN  GaloisLoop(reduced, b \div 2, added, n + 1)

galois_multiply(a, b) == GaloisLoop(a, b, 0, 0)

\* an array written out: the sequence of its elements
Array(s) == SubSeq(s, 1, Len(s))

substitute_bytes(state) == Array([k \in 1..16 |-> substitution_table[state[k]]])

\* row 1 left by 1, row 2 left by 2, row 3 left by 3
shift_rows(state) ==
    Array([k \in 1..16 |->
        LET i == (k - 1) \div 4
            j == (k - 1) % 4
        IN  state[4 * i + ((j + i) % 4) + 1]])

mix_columns(state) ==
    Array([k \in 1..16 |->
        LET row == (k - 1) \div 4
            col == (k - 1) % 4
            Term(i) == galois_multiply(mix_columns_matrix[row + 1][i + 1],
                                       state[4 * i + col + 1])
        IN  BitXor(BitXor(Term(0), Term(1)), BitXor(Term(2), Term(3)))])

\* word i of the round key, most significant byte first, onto row i
add_round_key(state, round_key) ==
    Array([k \in 1..16 |-> BitXor(state[k], round_key[k])])

\* round_constant(round) << 24: the most significant byte
round_constant(round) ==
    <<1, 2, 4, 8, 16, 32, 64, 128, 27, 54>>[(round % 10) + 1]

\* substitute_word(temp.rotate_left(8)) ^ round_constant(round) of a word
\* given most significant byte first
FirstWordTemp(word, round) ==
    <<BitXor(substitution_table[word[2]], round_constant(round)),
      substitution_table[word[3]], substitution_table[word[4]],
      substitution_table[word[1]]>>

\* the round keys of setup_key_schedule up to round n, from the key words
RECURSIVE ScheduleRounds(_, _)
ScheduleRounds(master_key, n) ==
    IF n = 0
    THEN <<Array([k \in 1..16 |->
              IF ((k - 1) \div 4) * 4 + 3 < Len(master_key) THEN master_key[k] ELSE 0])>>
    ELSE LET earlier == ScheduleRounds(master_key, n - 1)
             previous == earlier[n]
             last == SubSeq(previous, 13, 16)
             first_temp == FirstWordTemp(last, n)
         IN  Append(earlier,
                 Array([k \in 1..16 |->
                     LET temp == IF k <= 4 THEN first_temp ELSE last
                     IN  BitXor(previous[k], temp[((k - 1) % 4) + 1])]))

\* setup_key_schedule on key bytes: round_keys[0..15], index round + 1
key_schedule(master_key) == ScheduleRounds(master_key, ROUND_KEY_COUNT - 1)

\* the main rounds of encrypt_block from round on
RECURSIVE MainRounds(_, _, _)
MainRounds(schedule, state, round) ==
    IF Len(state) = 0 \/ round = ROUND_KEY_COUNT - 1 THEN state
    ELSE MainRounds(schedule,
             add_round_key(mix_columns(shift_rows(substitute_bytes(state))),
                           schedule[round + 1]),
             round + 1)

\* encrypt_block on bytes under a schedule of key_schedule
block_rounds(schedule, plaintext) ==
    LET mixed == MainRounds(schedule, add_round_key(plaintext, schedule[1]), 1)
    IN  add_round_key(shift_rows(substitute_bytes(mixed)),
                      schedule[ROUND_KEY_COUNT])

\* ------------------------------------------------------------------------
\* setup_key_schedule on the engine's array of round keys
\* ------------------------------------------------------------------------
\* [[0u32; 4]; 15]: round_keys[round] is 16 bytes at round + 1, word i is
\* its bytes 4 i + 1 .. 4 i + 4, most significant first
ZeroRoundKeys == [round \in 1..ROUND_KEY_COUNT |-> [k \in 1..16 |-> 0]]

\* word i of round_keys[round]
RoundKeyWord(round_keys, round, i) == SubSeq(round_keys[round + 1], 4 * i + 1, 4 * i + 4)

\* the assignment to round_keys[round][i] with round 1 taken from the
\* key words 4..7
ScheduleWord_second_half_in_round_1(round_keys, master_key, round, i) ==
    IF round = 0
    THEN IF i * 4 + 3 < Len(master_key)
         THEN SubSeq(master_key, i * 4 + 1, i * 4 + 4) ELSE <<0, 0, 0, 0>>
    ELSE IF round = 1
    THEN IF (i + 4) * 4 + 3 < Len(master_key)
         THEN SubSeq(master_key, (i + 4) * 4 + 1, (i + 4) * 4 + 4) ELSE <<0, 0, 0, 0>>
    ELSE LET read == RoundKeyWord(round_keys, round - 1, 3)
             temp == IF i = 0 THEN FirstWordTemp(read, round) ELSE read
             previous == RoundKeyWord(round_keys, round - 1, i)
         IN  [b \in 1..4 |-> BitXor(previous[b], temp[b])]
\* the assignment to round_keys[round][i] with temp read from the round
\* that is being written
ScheduleWord_temp_of_same_round(round_keys, master_key, round, i) ==
    IF round = 0
    THEN IF i * 4 + 3 < Len(master_key)
         THEN SubSeq(master_key, i * 4 + 1, i * 4 + 4) ELSE <<0, 0, 0, 0>>
    ELSE LET read == RoundKeyWord(round_keys, round, 3)
             temp == IF i = 0 THEN FirstWordTemp(read, round) ELSE read
             previous == RoundKeyWord(round_keys, round - 1, i)
         IN  [b \in 1..4 |-> BitXor(previous[b], temp[b])]
\* the value assigned to round_keys[round][i], read from the array as it
\* is when the assignment runs
ScheduleWord(round_keys, master_key, round, i) ==
    IF round = 0
    THEN IF i * 4 + 3 < Len(master_key)
         THEN SubSeq(master_key, i * 4 + 1, i * 4 + 4) ELSE <<0, 0, 0, 0>>
    ELSE LET read == RoundKeyWord(round_keys, round - 1, 3)
             temp == IF i = 0 THEN FirstWordTemp(read, round) ELSE read
             previous == RoundKeyWord(round_keys, round - 1, i)
         IN  [b \in 1..4 |-> BitXor(previous[b], temp[b])]

\* the two loops of setup_key_schedule from assignment number step on
RECURSIVE ScheduleLoop(_, _, _)
ScheduleLoop(round_keys, master_key, step) ==
    IF Len(round_keys) = 0 \/ step = 4 * ROUND_KEY_COUNT THEN round_keys
    ELSE LET round == step \div 4
             i == step % 4
             word == ScheduleWord(round_keys, master_key, round, i)
             written == Array([k \in 1..16 |->
                            IF (k - 1) \div 4 = i THEN word[((k - 1) % 4) + 1]
                            ELSE round_keys[round + 1][k]])
         IN  ScheduleLoop(Array([r \in 1..ROUND_KEY_COUNT |->
                                    IF r = round + 1 THEN written ELSE round_keys[r]]),
                          master_key, step + 1)

\* set_patient_key and setup_key_schedule on the array the engine holds
set_patient_key(round_keys, patient_key) == ScheduleLoop(round_keys, patient_key, 0)

\* no engine constructed yet
NoEngine ==
    [phase |-> "none", round_keys |-> <<>>, sessions |-> <<>>,
     last |-> [device_id |-> <<>>, key |-> <<>>, before |-> <<>>, used |-> <<>>]]

\* ------------------------------------------------------------------------
\* RegionalComputationalEngine on bytes
\* ------------------------------------------------------------------------
\* RegionalComputationalEngine::new
REGIONAL_BLOCK_SIZE == 16
REGIONAL_KEY_SIZE == 16
REGIONAL_ROUNDS == 12

\* one byte of apply_regional_sbox_1
Sbox1Byte(byte) == (byte * 7 + 11) % 256

\* one byte of apply_regional_sbox_2 with an even multiplier
Sbox2Byte_even_multiplier(byte) == (byte * 12 + 23) % 256
\* one byte of apply_regional_sbox_2
Sbox2Byte(byte) == (byte * 13 + 23) % 256

apply_regional_sbox_1(state) ==
    Array([k \in 1..Len(state) |-> Sbox1Byte(state[k])])

apply_regional_sbox_2(state) ==
    Array([k \in 1..Len(state) |-> Sbox2Byte(state[k])])

\* state[(i + step) % len], on a sequence that starts at index 1
Ahead(state, k, step) == state[((k - 1 + step) % Len(state)) + 1]

\* every byte is combined with the two bytes after it, read from the
\* state before the step
apply_regional_diffusion(state) ==
    Array([k \in 1..Len(state) |->
              BitXor(BitXor(state[k], Ahead(state, k, 1)), Ahead(state, k, 2))])

\* key[i % key.len()] ^ (round as u8), for rounds below 256
regional_add_round_key(state, key, round) ==
    Array([k \in 1..Len(state) |->
              BitXor(state[k], BitXor(key[((k - 1) % Len(key)) + 1], round % 256))])

\* the rounds round..rounds-1 of process_regional_block
RECURSIVE RegionalRounds(_, _, _)
RegionalRounds(state, key, round) ==
    IF Len(state) = 0 \/ round = REGIONAL_ROUNDS THEN state
    ELSE LET substituted == IF round % 2 = 1 THEN apply_regional_sbox_1(state)
                            ELSE apply_regional_sbox_2(state)
         IN  RegionalRounds(
                 regional_add_round_key(apply_regional_diffusion(substituted), key, round),
                 key, round + 1)

process_regional_block(block, key) ==
    LET mixed == RegionalRounds(regional_add_round_key(block, key, 0), key, 1)
    IN  regional_add_round_key(apply_regional_sbox_1(mixed), key, REGIONAL_ROUNDS)

\* no block transformed yet
NoProbe ==
    [engine |-> "none", key |-> <<>>, a |-> <<>>, b |-> <<>>,
     out_a |-> <<>>, out_b |-> <<>>]

\* ------------------------------------------------------------------------
\* The parallel block paths of the framework's engines
\* ------------------------------------------------------------------------
\* MatrixTransformationProcessor::new, KoreanMathematicalEngine::new
MATRIX_BLOCK_SIZE == 16
MATRIX_KEY_SIZE == 32
KOREAN_BLOCK_SIZE == 8
KOREAN_KEY_SIZE == 16

\* data.chunks(block_size): the chunks in order, the last one may be short
RECURSIVE chunks(_, _)
chunks(data, block_size) ==
    IF Len(data) = 0 THEN <<>>
    ELSE LET n == Min(Len(data), block_size)
         IN  <<SubSeq(data, 1, n)>> \o chunks(SubSeq(data, n + 1, Len(data)), block_size)

\* MatrixTransformationProcessor::partition_into_blocks: a short chunk is
\* filled with bytes of the value padding_len
partition_into_blocks(data) ==
    LET parts == chunks(data, MATRIX_BLOCK_SIZE)
    IN  [i \in 1..Len(parts) |->
            IF Len(parts[i]) < MATRIX_BLOCK_SIZE
            THEN LET padding_len == MATRIX_BLOCK_SIZE - Len(parts[i])
                 IN  parts[i] \o [k \in 1..padding_len |-> padding_len]
            ELSE parts[i]]

\* partition_data of KoreanMathematicalEngine and RegionalComputationalEngine:
\* block.resize(block_size, 0)
partition_data(data, block_size) ==
    LET parts == chunks(data, block_size)
    IN  [i \in 1..Len(parts) |->
            IF Len(parts[i]) < block_size
            THEN parts[i] \o [k \in 1..(block_size - Len(parts[i])) |-> 0]
            ELSE parts[i]]

\* the engines that map their blocks with par_iter
ParallelEngines ==
    { "MatrixTransformationProcessor", "KoreanMathematicalEngine",
      "RegionalComputationalEngine" }

EngineBlockSize(engine) ==
    IF engine = "KoreanMathematicalEngine" THEN KOREAN_BLOCK_SIZE
    ELSE IF engine = "MatrixTransformationProcessor" THEN MATRIX_BLOCK_SIZE
    ELSE REGIONAL_BLOCK_SIZE

EngineKeySize(engine) ==
    IF engine = "MatrixTransformationProcessor" THEN MATRIX_KEY_SIZE
    ELSE IF engine = "KoreanMathematicalEngine" THEN KOREAN_KEY_SIZE
    ELSE REGIONAL_KEY_SIZE

EnginePartition(engine, data) ==
    IF engine = "MatrixTransformationProcessor" THEN partition_into_blocks(data)
    ELSE partition_data(data, EngineBlockSize(engine))

\* the closure given to map: transform_block and process_korean_block
\* return block_size bytes that are a function of the block and the key,
\* process_regional_block is computed
MapBlock(engine, block, key) ==
    IF engine = "RegionalComputationalEngine" THEN process_regional_block(block, key)
    ELSE IF engine = "KoreanMathematicalEngine"
    THEN TermBytes([op |-> "process_korean_block", block |-> block, key |-> key],
                   KOREAN_BLOCK_SIZE)
    ELSE TermBytes([op |-> "transform_block", block |-> block, key |-> key],
                   Len(block))

\* into_iter().flatten().collect()
RECURSIVE flatten(_)
flatten(parts) ==
    IF Len(parts) = 0 THEN <<>> ELSE Head(parts) \o flatten(Tail(parts))

\* no parallel call made yet
NoParallel ==
    [engine |-> "none", phase |-> "idle", data |-> <<>>, key |-> <<>>,
     blocks |-> <<>>, taken |-> <<>>, running |-> {}, slots |-> <<>>,
     finished |-> <<>>, output |-> <<>>]

\* ------------------------------------------------------------------------
\* CompactStreamCipher
\* ------------------------------------------------------------------------
\* A u32 of the state is its four bytes, least significant first.
LeWord(b0, b1, b2, b3) == <<Lit(b0), Lit(b1), Lit(b2), Lit(b3)>>

\* 0x61707865, 0x3320646e, 0x79622d32, 0x6b206574
StreamConstants ==
    <<LeWord(101, 120, 112, 97), LeWord(110, 100, 32, 51),
      LeWord(50, 45, 98, 121), LeWord(116, 101, 32, 107)>>

\* CompactStreamCipher::new
NewStreamCipher ==
    [internal_state |-> [i \in 0..15 |-> LeWord(0, 0, 0, 0)],
     keystream_buffer |-> [zero |-> KEYSTREAM_BLOCK_SIZE],
     buffer_position |-> KEYSTREAM_BLOCK_SIZE,
     initialization_vector |-> [i \in 1..NONCE_SIZE |-> Lit(0)]]

\* initialize without the two counter words
initialize_keep_counter(cipher, key, iv) ==
    [cipher EXCEPT
       !.internal_state =
          [i \in 0..15 |->
             IF i <= 3 THEN StreamConstants[i + 1]
             ELSE IF i <= 11
                  THEN IF (i - 4) * 4 + 3 < Len(key)
                       THEN SubSeq(key, (i - 4) * 4 + 1, (i - 4) * 4 + 4)
                       ELSE cipher.internal_state[i]
             ELSE IF i <= 13 THEN cipher.internal_state[i]
             ELSE IF Len(iv) >= 8
                  THEN SubSeq(iv, (i - 14) * 4 + 1, (i - 14) * 4 + 4)
                  ELSE cipher.internal_state[i]],
       !.initialization_vector =
          IF Len(iv) >= 8 THEN iv ELSE cipher.initialization_vector,
       !.buffer_position = KEYSTREAM_BLOCK_SIZE]

\* initialize(key, iv): constants, key words, zero counter, nonce words;
\* a key word is written only when the key has its four bytes, the nonce
\* only when iv has at least 8 bytes
initialize(cipher, key, iv) ==
    [cipher EXCEPT
       !.internal_state =
          [i \in 0..15 |->
             IF i <= 3 THEN StreamConstants[i + 1]
             ELSE IF i <= 11
                  THEN IF (i - 4) * 4 + 3 < Len(key)
                       THEN SubSeq(key, (i - 4) * 4 + 1, (i - 4) * 4 + 4)
                       ELSE cipher.internal_state[i]
             ELSE IF i <= 13 THEN LeWord(0, 0, 0, 0)
             ELSE IF Len(iv) >= 8
                  THEN SubSeq(iv, (i - 14) * 4 + 1, (i - 14) * 4 + 4)
                  ELSE cipher.internal_state[i]],
       !.initialization_vector =
          IF Len(iv) >= 8 THEN iv ELSE cipher.initialization_vector,
       !.buffer_position = KEYSTREAM_BLOCK_SIZE]

\* u32::wrapping_add(1) on a word of literal bytes, with the carry out
RECURSIVE IncBytes(_, _)
IncBytes(w, i) ==
    IF i > Len(w) THEN w
    ELSE IF w[i].lit = 255 THEN IncBytes([w EXCEPT ![i] = Lit(0)], i + 1)
    ELSE [w EXCEPT ![i] = Lit(w[i].lit + 1)]

wrapping_inc(w) == IncBytes(w, 1)

\* the 16 words as they are written inside a keystream term
StateBytes(internal_state) ==
    Pack(internal_state[0] \o internal_state[1] \o internal_state[2]
         \o internal_state[3] \o internal_state[4] \o internal_state[5]
         \o internal_state[6] \o internal_state[7] \o internal_state[8]
         \o internal_state[9] \o internal_state[10] \o internal_state[11]
         \o internal_state[12] \o internal_state[13] \o internal_state[14]
         \o internal_state[15])

\* generate_keystream_block without the carry into word 13
generate_keystream_block_no_carry(cipher) ==
    [cipher EXCEPT
       !.keystream_buffer = [ks |-> StateBytes(cipher.internal_state)],
       !.internal_state = [cipher.internal_state EXCEPT
                              ![12] = wrapping_inc(cipher.internal_state[12])],
       !.buffer_position = 0]

\* generate_keystream_block: the 64 bytes are a function of the 16 input
\* words (20 rounds, then add the input words); then the counter advances.
\* keystream_buffer holds the name of its 64 bytes: [zero |-> 64] for
\* [0u8; 64], [ks |-> words] for the block generated from words.
generate_keystream_block(cipher) ==
    LET low == wrapping_inc(cipher.internal_state[12])
        high == IF low = LeWord(0, 0, 0, 0)
                THEN wrapping_inc(cipher.internal_state[13])
                ELSE cipher.internal_state[13]
    IN  [cipher EXCEPT
           !.keystream_buffer = [ks |-> StateBytes(cipher.internal_state)],
           !.internal_state = [cipher.internal_state EXCEPT ![12] = low, ![13] = high],
           !.buffer_position = 0]

\* next_byte: the cipher after the call and the byte returned
next_byte(cipher) ==
    LET c == IF cipher.buffer_position >= KEYSTREAM_BLOCK_SIZE
             THEN generate_keystream_block(cipher) ELSE cipher
    IN  [cipher |-> [c EXCEPT !.buffer_position = c.buffer_position + 1],
         byte |-> IF "zero" \in DOMAIN c.keystream_buffer THEN Lit(0)
                  ELSE [of |-> c.keystream_buffer, ix |-> c.buffer_position + 1]]

\* ------------------------------------------------------------------------
\* MedicalSecurityModule
\* ------------------------------------------------------------------------
\* 0x428A2F98E23D6C85, most significant byte first
ENTROPY_MIX == <<66, 138, 47, 152, 226, 61, 108, 133>>

\* generate_medical_entropy: word i = rotl(nanos, 8 i) ^ mix, big-endian;
\* byte j of rotl(nanos, 8 i) is byte (j + i) mod 8 of nanos
generate_medical_entropy(nanos) ==
    LET ts == to_be_bytes(nanos)
    IN  [k \in 1..32 |->
           LET i == (k - 1) \div 8
               j == (k - 1) % 8
           IN  Xor8(ts[((j + i) % 8) + 1], ENTROPY_MIX[j + 1])]

\* generate_device_iv without the counter bytes
generate_device_iv_no_counter(device_context, timestamp) ==
    [i \in 1..MEDICAL_BLOCK_SIZE |->
       IF i <= 8 THEN Xor8(device_context.device_id[i], ByteAt(timestamp, i - 1))
       ELSE IF i <= DEVICE_ID_LENGTH THEN device_context.device_id[i]
       ELSE 0]

\* generate_device_iv: device id bytes, then the low 4 bytes of the
\* big-endian counter, then the first 8 bytes mixed with the timestamp
generate_device_iv(device_context, timestamp) ==
    LET counter_bytes == to_be_bytes(device_context.encryption_counter)
        iv0 == [i \in 1..MEDICAL_BLOCK_SIZE |->
                  IF i <= DEVICE_ID_LENGTH THEN device_context.device_id[i]
                  ELSE counter_bytes[4 + (i - DEVICE_ID_LENGTH)]]
    IN  [i \in 1..MEDICAL_BLOCK_SIZE |->
           IF i <= 8 THEN Xor8(iv0[i], ByteAt(timestamp, i - 1)) ELSE iv0[i]]

\* the medical padding scheme of encrypt_with_block_cipher
padded_data(data) ==
    LET padding_needed == MEDICAL_BLOCK_SIZE - (Len(data) % MEDICAL_BLOCK_SIZE)
    IN  IF padding_needed # MEDICAL_BLOCK_SIZE
        THEN data \o [i \in 1..padding_needed |-> padding_needed]
        ELSE data

\* the loop over padded_data.chunks(MEDICAL_BLOCK_SIZE): each chunk, zero
\* filled to a block, is xored with the previous block and encrypted
RECURSIVE CbcChunks(_, _, _)
CbcChunks(round_keys, padded, previous_block) ==
    IF Len(padded) = 0 THEN <<>>
    ELSE LET n == Min(Len(padded), MEDICAL_BLOCK_SIZE)
             block == [i \in 1..MEDICAL_BLOCK_SIZE |->
                         XorByte(IF i <= n THEN padded[i] ELSE Lit(0),
                                 previous_block[i])]
             encrypted_block == encrypt_block(round_keys, block)
         IN  encrypted_block
             \o CbcChunks(round_keys, SubSeq(padded, n + 1, Len(padded)),
                          encrypted_block)

encrypt_with_block_cipher(round_keys, data, iv) ==
    LitSeq(iv) \o CbcChunks(round_keys, LitSeq(padded_data(data)), LitSeq(iv))

\* the loop over data of encrypt_with_stream_cipher: the cipher after the
\* last next_byte and the bytes pushed
RECURSIVE StreamLoop(_, _, _)
StreamLoop(cipher, data, result) ==
    IF Len(data) = 0 THEN [cipher |-> cipher, result |-> result]
    ELSE LET nb == next_byte(cipher)
         IN  StreamLoop(nb.cipher, Tail(data),
                        Append(result, XorByte(Lit(Head(data)), nb.byte)))

encrypt_with_stream_cipher(cipher, data, key, nonce) ==
    StreamLoop(initialize(cipher, key, LitSeq(SubSeq(nonce, 1, NONCE_SIZE))),
               data, LitSeq(SubSeq(nonce, 1, NONCE_SIZE)))


\* ------------------------------------------------------------------------
\* State
\* ------------------------------------------------------------------------
VARIABLES
    device_registry,   \* HashMap<String, DeviceContext> behind the mutex
    round_keys,        \* encryption_engine.round_keys
    stream_cipher,     \* stream_cipher
    salt,              \* key_derivation.salt
    calls,             \* number of calls made so far
    lastCall,          \* the last call: its arguments and what it returned
    lastEnc,           \* per device: its last successful encrypt since it
                       \* was last registered
    ivLog,             \* <<device id, session key, IV>> of every successful
                       \* encrypt before the last call
    mutex,             \* the Mutex of device_registry: 0, or the caller
                       \* that holds the guard
    caller,            \* per caller on a clone of the module: where it is
                       \* in its call, its locals and its clone's engines
    observed,          \* per device: the counters generate_device_iv has
                       \* read since the device was last inserted
    hash_processor,    \* hash_processor of the module
    digest,            \* what finalize returned since the last reset
    derived,           \* every derive_patient_key so far: its inputs, its key
    hashUse,           \* the calls the module's operations issue on hash
                       \* processors: the operation under way, its next
                       \* call, where each processor is in its cycle
    construction,      \* where MedicalSecurityModule::new is
    keystream,         \* the last initialize of the stream cipher: its key,
                       \* its nonce, the bytes next_byte returned since
    firstStream,       \* the same of the first initialize
    streamRun,         \* a session of the stream cipher followed block by
                       \* block: the counter it started at, the blocks
                       \* generated, the bytes drawn
    probe,             \* the blocks a block transform was last run on, and
                       \* what it returned
    encryption_engine, \* an encryption engine whose round keys are kept
                       \* as bytes: the keys of the sessions, the array
                       \* before and after the last set_patient_key
    parallel,          \* the last parallel block call of an engine: its
                       \* blocks, its workers, what it returned
    framework          \* the last process_computation of the framework:
                       \* its context, the stages that ran, what it returned

vars == <<device_registry, round_keys, stream_cipher, salt,
          calls, lastCall, lastEnc, ivLog, mutex, caller, observed,
          hash_processor,
          digest,
          derived, hashUse,
          construction,
          keystream, firstStream, streamRun,
          probe, parallel, encryption_engine,
          framework>>

\* the module and its callers
SessionVars == <<device_registry, round_keys, stream_cipher, salt,
                 calls, lastCall, lastEnc, ivLog, mutex, caller, observed>>
\* the framework, the hash processor driven on its own, the keys derived,
\* the keystream drawn, the blocks transformed
FrameworkVars == <<framework>>
HashVars == <<hash_processor, digest>>
KdfVars == <<derived, hashUse>>
StreamVars == <<keystream, firstStream, streamRun>>
\* what no call on the module touches
BlockVars == <<probe, parallel, encryption_engine>>
OtherVars == <<FrameworkVars, HashVars, KdfVars, StreamVars, BlockVars, construction>>
FrameworkOnly == UNCHANGED <<SessionVars, HashVars, KdfVars, StreamVars, BlockVars, construction>>
HashOnly == UNCHANGED <<SessionVars, FrameworkVars, KdfVars, StreamVars, BlockVars, construction>>
KdfOnly == UNCHANGED <<SessionVars, FrameworkVars, HashVars, StreamVars, BlockVars, construction>>

\* the fields of MedicalSecurityModule as one value
ModuleState ==
    [device_registry |-> device_registry, round_keys |-> round_keys,
     stream_cipher |-> stream_cipher, salt |-> salt]

\* HashMap::insert
Insert(map, k, v) == [x \in (DOMAIN map) \cup {k} |-> IF x = k THEN v ELSE map[x]]

EmptyMap == [x \in {} |-> 0]

\* what a call returns, with the IV it derived and the counter it read
Failed(self, message) ==
    [self |-> self, ok |-> FALSE, err |-> message, out |-> <<>>,
     iv |-> <<>>, counter |-> 0]

Returned(self, bytes, iv, counter) ==
    [self |-> self, ok |-> TRUE, err |-> "", out |-> bytes,
     iv |-> iv, counter |-> counter]

\* register_medical_device rejecting only ids that are too short
register_medical_device_min_length(self, device_id, patient_identifier, now) ==
    IF Len(device_id) < DEVICE_ID_LENGTH
    THEN Failed(self, "Invalid device ID length")
    ELSE LET patient_key == derive_patient_key(self.salt, device_id, patient_identifier)
         IN  Returned([self EXCEPT !.device_registry =
                          Insert(self.device_registry, device_id,
                                 [device_id |-> device_id,
                                  patient_key |-> patient_key,
                                  session_state |-> [i \in 1..MEDICAL_BLOCK_SIZE |-> 0],
                                  last_heartbeat |-> now,
                                  encryption_counter |-> 0])],
                      patient_key, <<>>, 0)

\* register_medical_device keeping the session an id already has
register_medical_device_keep_existing(self, device_id, patient_identifier, now) ==
    IF Len(device_id) # DEVICE_ID_LENGTH
    THEN Failed(self, "Invalid device ID length")
    ELSE LET patient_key == derive_patient_key(self.salt, device_id, patient_identifier)
         IN  Returned([self EXCEPT !.device_registry =
                          IF device_id \in DOMAIN self.device_registry
                          THEN self.device_registry
                          ELSE Insert(self.device_registry, device_id,
                                 [device_id |-> device_id,
                                  patient_key |-> patient_key,
                                  session_state |-> [i \in 1..MEDICAL_BLOCK_SIZE |-> 0],
                                  last_heartbeat |-> now,
                                  encryption_counter |-> 0])],
                      patient_key, <<>>, 0)

register_medical_device(self, device_id, patient_identifier, now) ==
    IF Len(device_id) # DEVICE_ID_LENGTH
    THEN Failed(self, "Invalid device ID length")
    ELSE LET patient_key == derive_patient_key(self.salt, device_id, patient_identifier)
             device_context ==
                 [device_id |-> device_id,
                  patient_key |-> patient_key,
                  session_state |-> [i \in 1..MEDICAL_BLOCK_SIZE |-> 0],
                  last_heartbeat |-> now,
                  encryption_counter |-> 0]
         IN  Returned([self EXCEPT !.device_registry =
                          Insert(self.device_registry, device_id, device_context)],
                      patient_key, <<>>, 0)

\* encrypt_patient_data creating an empty session for an unknown id before
\* it fails
encrypt_patient_data_or_insert(self, device_id, medical_data, now_iv, now_hb) ==
    Failed([self EXCEPT !.device_registry =
               Insert(self.device_registry, device_id,
                      [device_id |-> device_id,
                       patient_key |-> [k \in 1..PATIENT_KEY_SIZE |-> Lit(0)],
                       session_state |-> [i \in 1..MEDICAL_BLOCK_SIZE |-> 0],
                       last_heartbeat |-> now_hb,
                       encryption_counter |-> 0])],
           "Device not registered")

\* encrypt_patient_data storing the IV but not advancing the counter
encrypt_patient_data_no_advance(self, device_id, medical_data, now_iv, now_hb) ==
    IF device_id \notin DOMAIN self.device_registry
    THEN Failed(self, "Device not registered")
    ELSE LET device_context == self.device_registry[device_id]
             keyed == setup_key_schedule(device_context.patient_key)
             iv == generate_device_iv(device_context, now_iv)
             streamed == encrypt_with_stream_cipher(self.stream_cipher, medical_data,
                                                    device_context.patient_key, iv)
             small == Len(medical_data) <= MEDICAL_BLOCK_SIZE
         IN  Returned([self EXCEPT
                          !.round_keys = keyed,
                          !.stream_cipher =
                              IF small THEN self.stream_cipher ELSE streamed.cipher,
                          !.device_registry =
                              [self.device_registry EXCEPT ![device_id] =
                                  [device_context EXCEPT !.last_heartbeat = now_hb,
                                                         !.session_state = iv]]],
                      IF small THEN encrypt_with_block_cipher(keyed, medical_data, iv)
                      ELSE streamed.result,
                      iv, device_context.encryption_counter)

\* encrypt_patient_data sending a payload of exactly one block to the
\* stream cipher
encrypt_patient_data_strict_bound(self, device_id, medical_data, now_iv, now_hb) ==
    IF device_id \notin DOMAIN self.device_registry
    THEN Failed(self, "Device not registered")
    ELSE LET device_context == self.device_registry[device_id]
             keyed == setup_key_schedule(device_context.patient_key)
             iv == generate_device_iv(device_context, now_iv)
             streamed == encrypt_with_stream_cipher(self.stream_cipher, medical_data,
                                                    device_context.patient_key, iv)
             small == Len(medical_data) < MEDICAL_BLOCK_SIZE
         IN  Returned([self EXCEPT
                          !.round_keys = keyed,
                          !.stream_cipher =
                              IF small THEN self.stream_cipher ELSE streamed.cipher,
                          !.device_registry =
                              [self.device_registry EXCEPT ![device_id] =
                                  [device_context EXCEPT
                                     !.encryption_counter =
                                         device_context.encryption_counter + 1,
                                     !.last_heartbeat = now_hb,
                                     !.session_state = iv]]],
                      IF small THEN encrypt_with_block_cipher(keyed, medical_data, iv)
                      ELSE streamed.result,
                      iv, device_context.encryption_counter)

\* encrypt_patient_data that advances the counter of every session
encrypt_patient_data_advance_all(self, device_id, medical_data, now_iv, now_hb) ==
    IF device_id \notin DOMAIN self.device_registry
    THEN Failed(self, "Device not registered")
    ELSE LET device_context == self.device_registry[device_id]
             keyed == setup_key_schedule(device_context.patient_key)
             iv == generate_device_iv(device_context, now_iv)
             streamed == encrypt_with_stream_cipher(self.stream_cipher, medical_data,
                                                    device_context.patient_key, iv)
             small == Len(medical_data) <= MEDICAL_BLOCK_SIZE
             encrypted_data ==
                 IF small THEN encrypt_with_block_cipher(keyed, medical_data, iv)
                 ELSE streamed.result
             updated ==
                 [device_context EXCEPT
                    !.encryption_counter = device_context.encryption_counter + 1,
                    !.last_heartbeat = now_hb,
                    !.session_state = iv]
         IN  Returned([self EXCEPT
                          !.round_keys = keyed,
                          !.stream_cipher =
                              IF small THEN self.stream_cipher ELSE streamed.cipher,
                          !.device_registry =
                              [e \in DOMAIN self.device_registry |->
                                  IF e = device_id THEN updated
                                  ELSE [self.device_registry[e] EXCEPT
                                           !.encryption_counter = @ + 1]]],
                      encrypted_data, iv, device_context.encryption_counter)

\* now_iv: the clock read by generate_device_iv; now_hb: the clock read for
\* last_heartbeat
encrypt_patient_data(self, device_id, medical_data, now_iv, now_hb) ==
    IF device_id \notin DOMAIN self.device_registry
    THEN Failed(self, "Device not registered")
    ELSE LET device_context == self.device_registry[device_id]
             keyed == setup_key_schedule(device_context.patient_key)
             iv == generate_device_iv(device_context, now_iv)
             streamed == encrypt_with_stream_cipher(self.stream_cipher, medical_data,
                                                    device_context.patient_key, iv)
             small == Len(medical_data) <= MEDICAL_BLOCK_SIZE
             encrypted_data ==
                 IF small THEN encrypt_with_block_cipher(keyed, medical_data, iv)
                 ELSE streamed.result
             updated ==
                 [device_context EXCEPT
                    !.encryption_counter = device_context.encryption_counter + 1,
                    !.last_heartbeat = now_hb,
                    !.session_state = iv]
         IN  Returned([self EXCEPT
                          !.round_keys = keyed,
                          !.stream_cipher =
                              IF small THEN self.stream_cipher ELSE streamed.cipher,
                          !.device_registry =
                              [self.device_registry EXCEPT ![device_id] = updated]],
                      encrypted_data, iv, device_context.encryption_counter)

\* ------------------------------------------------------------------------
\* The computation framework (AdvancedMathematicalFramework.rs): the
\* pipeline of a context and the stages that run over its data
\* ------------------------------------------------------------------------
\* the largest value the model lets the random source return
MaxEntropy == 3
Entropy == 0..MaxEntropy

SecurityLevels == {"Standard", "Enhanced", "Maximum", "Enterprise"}
PerformanceModes == {"Sequential", "Parallel"}
ComplianceLists ==
    { <<>>, <<"korean_standards">>, <<"iso_27001">>,
      <<"iso_27001", "korean_standards">>, <<"Korean_Standards">> }
ContextData == { <<>>, <<7>>, <<1, 0>> }
Contexts ==
    [data : ContextData, security_level : SecurityLevels,
     performance_mode : PerformanceModes,
     compliance_requirements : ComplianceLists]

\* Vec::contains
Contains(list, x) == \E i \in 1..Len(list) : list[i] = x

\* only Enterprise takes the public key stages
build_computation_pipeline_enterprise_only(context) ==
    LET public_key == IF context.security_level \in {"Enterprise"}
                      THEN <<"LargeIntegerArithmetic", "PolynomialFieldComputation">>
                      ELSE <<>>
        matrix == Append(public_key, "MatrixLinearTransformation")
        regional == IF Contains(context.compliance_requirements, "korean_standards")
                    THEN matrix \o <<"KoreanMathematicalOperations",
                                     "RegionalComputationalAlgorithms">>
                    ELSE matrix
    IN  Append(regional, "DigestComputationEngine")

\* build_computation_pipeline: the pushes in the order the code makes them
build_computation_pipeline(context) ==
    LET public_key == IF context.security_level \in {"Enhanced", "Maximum", "Enterprise"}
                      THEN <<"LargeIntegerArithmetic", "PolynomialFieldComputation">>
                      ELSE <<>>
        matrix == Append(public_key, "MatrixLinearTransformation")
        regional == IF Contains(context.compliance_requirements, "korean_standards")
                    THEN matrix \o <<"KoreanMathematicalOperations",
                                     "RegionalComputationalAlgorithms">>
                    ELSE matrix
    IN  Append(regional, "DigestComputationEngine")

\* BigUint::from_bytes_be
RECURSIVE from_bytes_be(_)
from_bytes_be(bytes) ==
    IF bytes = <<>> THEN 0
    ELSE 256 * from_bytes_be(SubSeq(bytes, 1, Len(bytes) - 1)) + bytes[Len(bytes)]

\* BigUint::to_bytes_be: no leading zero byte, one zero byte for zero
RECURSIVE biguint_to_bytes_be(_)
biguint_to_bytes_be(x) ==
    IF x < 256 THEN <<x>>
    ELSE Append(biguint_to_bytes_be(x \div 256), x % 256)

\* BigUint::modpow by squaring, for a modulus that is not zero
RECURSIVE modpow(_, _, _)
modpow(base, exponent, n) ==
    IF exponent = 0 THEN 1 % n
    ELSE LET half == modpow(base, exponent \div 2, n)
             square == (half * half) % n
         IN  IF exponent % 2 = 1 THEN (square * base) % n ELSE square

PUBLIC_EXPONENT == 65537

\* what a stage hands back: its output, or the panic that unwinds
\* process_computation
StageOk(data) == [panic |-> FALSE, data |-> data]
StagePanic == [panic |-> TRUE, data |-> [bytes |-> <<>>]]

\* the data between stages: the bytes where the model computes them, and
\* otherwise the stage that produced them and what it was given
Bytes(b) == [bytes |-> b]
StageOutput(operation, data) == [by |-> operation, of |-> data]

\* process_modular_arithmetic with p and q the values gen_biguint returns;
\* BigUint's % panics on a zero divisor
process_modular_arithmetic(data, p, q) ==
    LET n == p * q
    IN  IF n = 0 THEN StagePanic
        ELSE StageOk(Bytes(biguint_to_bytes_be(
                 modpow(from_bytes_be(data.bytes) % n, PUBLIC_EXPONENT, n))))

\* one arm of the match in process_computation
RunStage(operation, data, p, q) ==
    IF operation = "LargeIntegerArithmetic"
    THEN process_modular_arithmetic(data, p, q)
    ELSE StageOk(StageOutput(operation, data))

\* the loop of process_computation from stage i on
RECURSIVE RunPipeline(_, _, _, _, _, _)
RunPipeline(pipeline, i, run, p, q, elapsed) ==
    IF i > Len(pipeline) \/ run.panic THEN run
    ELSE LET operation == pipeline[i]
             quantum == IF operation \in {"LargeIntegerArithmetic",
                                          "PolynomialFieldComputation"}
                        THEN "High" ELSE run.quantum_vulnerability
             stage == RunStage(operation, run.data, p, q)
         IN  IF stage.panic
             THEN [run EXCEPT !.panic = TRUE, !.quantum_vulnerability = quantum]
             ELSE RunPipeline(pipeline, i + 1,
                      [run EXCEPT !.data = stage.data,
                                  !.quantum_vulnerability = quantum,
                                  !.ran = Append(@, operation),
                                  !.operation_metrics =
                                      Insert(@, operation, elapsed)],
                      p, q, elapsed)

\* the flags are set from the stage that ran last
process_computation_last_stage(context, p, q, elapsed) ==
    LET pipeline == build_computation_pipeline(context)
        run == RunPipeline(pipeline, 1,
                   [panic |-> FALSE, data |-> Bytes(context.data),
                    quantum_vulnerability |-> "Low", ran |-> <<>>,
                    operation_metrics |-> EmptyMap], p, q, elapsed)
        last == IF run.ran = <<>> THEN "none" ELSE run.ran[Len(run.ran)]
    IN  [called |-> TRUE, context |-> context, pipeline |-> pipeline,
         p |-> p, q |-> q, ran |-> run.ran,
         outcome |-> IF run.panic THEN "panic" ELSE "ok",
         processed_data |-> run.data,
         operation_metrics |-> run.operation_metrics,
         quantum_vulnerability |->
             IF last \in {"LargeIntegerArithmetic", "PolynomialFieldComputation"}
             THEN "High" ELSE "Low",
         korean_compliance |-> last = "KoreanMathematicalOperations",
         integrity_verified |-> last = "DigestComputationEngine"]

\* process_computation: the pipeline, the loop, the assessment
process_computation(context, p, q, elapsed) ==
    LET pipeline == build_computation_pipeline(context)
        run == RunPipeline(pipeline, 1,
                   [panic |-> FALSE, data |-> Bytes(context.data),
                    quantum_vulnerability |-> "Low", ran |-> <<>>,
                    operation_metrics |-> EmptyMap], p, q, elapsed)
    IN  [called |-> TRUE, context |-> context, pipeline |-> pipeline,
         p |-> p, q |-> q, ran |-> run.ran,
         outcome |-> IF run.panic THEN "panic" ELSE "ok",
         processed_data |-> run.data,
         operation_metrics |-> run.operation_metrics,
         quantum_vulnerability |-> run.quantum_vulnerability,
         korean_compliance |->
             "KoreanMathematicalOperations" \in DOMAIN run.operation_metrics,
         integrity_verified |->
             "DigestComputationEngine" \in DOMAIN run.operation_metrics]

\* no initialize yet
NoStream == [key |-> <<>>, nonce |-> <<>>, bytes |-> <<>>]
\* no session followed yet
NoRun ==
    [phase |-> "none", start |-> <<>>, generated |-> <<>>, inputs |-> <<>>,
     drawn |-> 0, last |-> Lit(0)]

\* AdvancedMathematicalFramework::new: no computation made yet
NewFramework ==
    [called |-> FALSE,
     context |-> [data |-> <<>>, security_level |-> "Standard",
                  performance_mode |-> "Sequential",
                  compliance_requirements |-> <<>>],
     pipeline |-> <<>>, p |-> 0, q |-> 0, ran |-> <<>>, outcome |-> "ok",
     processed_data |-> Bytes(<<>>), operation_metrics |-> EmptyMap,
     quantum_vulnerability |-> "Low", korean_compliance |-> FALSE,
     integrity_verified |-> FALSE]

\* ------------------------------------------------------------------------
\* The calls, one at a time on one module
\* ------------------------------------------------------------------------
\* the most callers that run at once, each on its own clone
MaxCallers == 2
Callers == 1..MaxCallers

NoContext ==
    [device_id |-> <<>>, patient_key |-> <<>>, session_state |-> <<>>,
     last_heartbeat |-> 0, encryption_counter |-> 0]

\* #[derive(Clone)] on MedicalSecurityModule: the clone shares the registry
\* and copies the engines; its caller has made no call yet
NewCaller(self) ==
    [pc |-> "idle", op |-> "none", device_id |-> <<>>, medical_data |-> <<>>,
     device_context |-> NoContext,
     round_keys |-> self.round_keys, stream_cipher |-> self.stream_cipher,
     iv |-> <<>>, counter |-> 0, encrypted_data |-> <<>>,
     ok |-> TRUE, err |-> "", overlapped |-> {}]

NoEnc == [valid |-> FALSE, iv |-> <<>>, counter |-> 0, data |-> <<>>, out |-> <<>>]

NoCall ==
    [op |-> "new", device_id |-> <<>>, arg |-> <<>>, ok |-> TRUE, err |-> "",
     out |-> <<>>, iv |-> <<>>, counter |-> 0]

Call(op, device_id, arg, r) ==
    [op |-> op, device_id |-> device_id, arg |-> arg, ok |-> r.ok, err |-> r.err,
     out |-> r.out, iv |-> r.iv, counter |-> r.counter]

\* MedicalSecurityModule::new: the component constructors, then the key
\* schedule of the entropy seed; the salt is the one
\* KeyDerivationFunction::new sets
InitModule(times) ==
    /\ device_registry = EmptyMap
    /\ \E nanos \in times :
          round_keys = setup_key_schedule(LitSeq(generate_medical_entropy(nanos)))
    /\ stream_cipher = NewStreamCipher
    /\ salt = NewSalt
    /\ calls = 0
    /\ lastCall = NoCall
    /\ lastEnc = [d \in DeviceIds |-> NoEnc]
    /\ ivLog = {}
    /\ mutex = 0
    /\ observed = [d \in DeviceIds |-> <<>>]
    /\ framework = NewFramework
    /\ probe = NoProbe
    /\ parallel = NoParallel
    /\ encryption_engine = NoEngine
    /\ keystream = NoStream
    /\ firstStream = NoStream
    /\ streamRun = NoRun
    /\ construction = "returned"
    /\ derived = <<>>
    /\ hashUse = NoHashUse
    /\ digest = <<>>
    /\ hash_processor = NewHashProcessor

\* one module, never cloned
Init ==
    /\ InitModule(Clock)
    /\ caller = EmptyMap

Commit(r) ==
    /\ device_registry' = r.self.device_registry
    /\ round_keys' = r.self.round_keys
    /\ stream_cipher' = r.self.stream_cipher
    /\ salt' = r.self.salt
    /\ calls' = calls + 1
    /\ UNCHANGED <<mutex, caller, observed>>
    /\ UNCHANGED OtherVars

\* the entry the last call adds to ivLog once the next call starts
Logged ==
    IF lastCall.op = "encrypt" /\ lastCall.ok
    THEN {<<lastCall.device_id,
            Pack(device_registry[lastCall.device_id].patient_key),
            lastCall.iv>>}
    ELSE {}

\* a caller registers one of ids for one of patients; the clock returns one
\* of times
Register(ids, patients, times) ==
    \E device_id \in ids, patient_identifier \in patients, now \in times :
        LET r == register_medical_device(ModuleState, device_id,
                                         patient_identifier, now)
        IN  /\ calls < MaxCalls
            /\ Commit(r)
            /\ lastCall' = Call("register", device_id, patient_identifier, r)
            /\ lastEnc' = IF r.ok THEN [lastEnc EXCEPT ![device_id] = NoEnc]
                          ELSE lastEnc
            /\ ivLog' = ivLog \cup Logged

\* a caller encrypts one of payloads for one of ids; the clock returns one
\* of iv_times to generate_device_iv and one of hb_times for last_heartbeat
Encrypt(ids, payloads, iv_times, hb_times) ==
    \E device_id \in ids, medical_data \in payloads,
       now_iv \in iv_times, now_hb \in hb_times :
        LET r == encrypt_patient_data(ModuleState, device_id, medical_data,
                                      now_iv, now_hb)
        IN  /\ calls < MaxCalls
            /\ Commit(r)
            /\ lastCall' = Call("encrypt", device_id, medical_data, r)
            /\ lastEnc' = IF r.ok
                          THEN [lastEnc EXCEPT ![device_id] =
                                   [valid |-> TRUE, iv |-> r.iv,
                                    counter |-> r.counter,
                                    data |-> medical_data, out |-> r.out]]
                          ELSE lastEnc
            /\ ivLog' = ivLog \cup Logged

\* callers with any device id, at one clock value
RegisterAny == Register(DeviceIds, Patients, Epoch)
EncryptAny == Encrypt(DeviceIds, {Payload(MaxLen)}, Epoch, Epoch)
Next == RegisterAny \/ EncryptAny
Spec == Init /\ [][Next]_vars

\* callers of one device and two patients, the clock moving between the IV
\* derivations
RegisterOne == Register({DEV_A}, Patients, Epoch)
EncryptOne == Encrypt({DEV_A}, TwoPayloads, Clock, Epoch)
NextSession == RegisterOne \/ EncryptOne
SpecSession == Init /\ [][NextSession]_vars

\* callers of one device with payloads of every length
RegisterPatient == Register({DEV_A}, {<<80, 49>>}, Epoch)
EncryptPayload == Encrypt({DEV_A}, Payloads, Epoch, Epoch)
NextPayload == RegisterPatient \/ EncryptPayload
SpecPayload == Init /\ [][NextPayload]_vars


\* ------------------------------------------------------------------------
\* Callers at once, each on its own clone: the statements of register and
\* encrypt one at a time, the registry behind its mutex
\* ------------------------------------------------------------------------
\* Mutex::lock without waiting for the guard to be dropped
lock_without_wait(t) == mutex' = t

\* Mutex::lock: returns once no guard is held
lock(t) == mutex = 0 /\ mutex' = t

\* the MutexGuard is dropped when the call returns
unlock(t) == mutex' = 0

At(t, pc) == caller[t].pc = pc
Goto(t, c) == caller' = [caller EXCEPT ![t] = c]

\* the original module makes no call
ModuleIdle ==
    /\ UNCHANGED <<round_keys, stream_cipher, salt, lastCall, lastEnc, ivLog>>
    /\ UNCHANGED OtherVars

\* the callers that are inside encrypt_patient_data for device_id
Encrypting(device_id) ==
    {u \in Callers : /\ caller[u].pc # "idle"
                     /\ caller[u].op = "encrypt"
                     /\ caller[u].device_id = device_id}

\* encrypt_patient_data is called
CallEncrypt(t, ids, payloads) ==
    /\ At(t, "idle")
    /\ calls < MaxCalls
    /\ \E device_id \in ids, medical_data \in payloads :
          Goto(t, [caller[t] EXCEPT
                     !.pc = "encrypt_lock", !.op = "encrypt",
                     !.device_id = device_id, !.medical_data = medical_data,
                     !.iv = <<>>, !.counter = 0, !.encrypted_data = <<>>,
                     !.overlapped = Encrypting(device_id)])
    /\ calls' = calls + 1
    /\ UNCHANGED <<device_registry, mutex, observed>>
    /\ ModuleIdle

\* let mut registry = self.device_registry.lock().unwrap();
EncryptLock(t) ==
    /\ At(t, "encrypt_lock")
    /\ lock(t)
    /\ Goto(t, [caller[t] EXCEPT !.pc = "get_mut"])
    /\ UNCHANGED <<device_registry, calls, observed>>
    /\ ModuleIdle

\* registry.get_mut(device_id).ok_or("Device not registered")?
EncryptLookup(t) ==
    /\ At(t, "get_mut")
    /\ IF caller[t].device_id \in DOMAIN device_registry
       THEN /\ Goto(t, [caller[t] EXCEPT !.pc = "set_patient_key"])
            /\ UNCHANGED mutex
       ELSE /\ Goto(t, [caller[t] EXCEPT !.pc = "idle", !.ok = FALSE,
                                         !.err = "Device not registered",
                                         !.overlapped = {}])
            /\ unlock(t)
    /\ UNCHANGED <<device_registry, calls, observed>>
    /\ ModuleIdle

\* self.encryption_engine.set_patient_key(&device_context.patient_key);
EncryptSetKey(t) ==
    /\ At(t, "set_patient_key")
    /\ Goto(t, [caller[t] EXCEPT
                  !.pc = "generate_device_iv",
                  !.round_keys = setup_key_schedule(
                      device_registry[caller[t].device_id].patient_key)])
    /\ UNCHANGED <<device_registry, mutex, calls, observed>>
    /\ ModuleIdle

\* let iv = self.generate_device_iv(device_context);
EncryptDeriveIv(t, times) ==
    /\ At(t, "generate_device_iv")
    /\ \E now \in times :
          LET device_context == device_registry[caller[t].device_id]
          IN  /\ Goto(t, [caller[t] EXCEPT
                            !.pc = "cipher",
                            !.iv = generate_device_iv(device_context, now),
                            !.counter = device_context.encryption_counter])
              /\ observed' = [observed EXCEPT ![caller[t].device_id] =
                                 Append(@, device_context.encryption_counter)]
    /\ UNCHANGED <<device_registry, mutex, calls>>
    /\ ModuleIdle

\* let encrypted_data = if medical_data.len() <= MEDICAL_BLOCK_SIZE {..} else {..};
EncryptCipher(t) ==
    /\ At(t, "cipher")
    /\ LET c == caller[t]
           streamed == encrypt_with_stream_cipher(
                           c.stream_cipher, c.medical_data,
                           device_registry[c.device_id].patient_key, c.iv)
       IN  IF Len(c.medical_data) <= MEDICAL_BLOCK_SIZE
           THEN Goto(t, [c EXCEPT
                           !.pc = "encryption_counter",
                           !.encrypted_data =
                               encrypt_with_block_cipher(c.round_keys,
                                                         c.medical_data, c.iv)])
           ELSE Goto(t, [c EXCEPT
                           !.pc = "encryption_counter",
                           !.stream_cipher = streamed.cipher,
                           !.encrypted_data = streamed.result])
    /\ UNCHANGED <<device_registry, mutex, calls, observed>>
    /\ ModuleIdle

\* device_context.encryption_counter += 1;
EncryptAdvance(t) ==
    /\ At(t, "encryption_counter")
    /\ device_registry' =
          [device_registry EXCEPT ![caller[t].device_id].encryption_counter = @ + 1]
    /\ Goto(t, [caller[t] EXCEPT !.pc = "last_heartbeat"])
    /\ UNCHANGED <<mutex, calls, observed>>
    /\ ModuleIdle

\* device_context.last_heartbeat = self.get_current_timestamp();
EncryptHeartbeat(t, times) ==
    /\ At(t, "last_heartbeat")
    /\ \E now \in times :
          device_registry' =
              [device_registry EXCEPT ![caller[t].device_id].last_heartbeat = now]
    /\ Goto(t, [caller[t] EXCEPT !.pc = "session_state"])
    /\ UNCHANGED <<mutex, calls, observed>>
    /\ ModuleIdle

\* device_context.session_state = iv;
EncryptStoreIv(t) ==
    /\ At(t, "session_state")
    /\ device_registry' =
          [device_registry EXCEPT ![caller[t].device_id].session_state = caller[t].iv]
    /\ Goto(t, [caller[t] EXCEPT !.pc = "encrypt_return"])
    /\ UNCHANGED <<mutex, calls, observed>>
    /\ ModuleIdle

\* Ok(encrypted_data): the ciphertext goes to the caller, the guard and the
\* locals go out of scope
EncryptReturn(t) ==
    /\ At(t, "encrypt_return")
    /\ unlock(t)
    /\ Goto(t, [caller[t] EXCEPT !.pc = "idle", !.ok = TRUE, !.err = "",
                                  !.iv = <<>>, !.counter = 0,
                                  !.encrypted_data = <<>>, !.overlapped = {}])
    /\ UNCHANGED <<device_registry, calls, observed>>
    /\ ModuleIdle

\* register_medical_device is called: the statements before the lock (the
\* length test, the key derivation, the new DeviceContext) touch nothing
\* shared
CallRegister(t, ids, patients, times) ==
    /\ At(t, "idle")
    /\ calls < MaxCalls
    /\ \E device_id \in ids, patient_identifier \in patients, now \in times :
          LET r == register_medical_device(
                       [ModuleState EXCEPT !.device_registry = EmptyMap],
                       device_id, patient_identifier, now)
          IN  IF r.ok
              THEN Goto(t, [caller[t] EXCEPT
                              !.pc = "register_lock", !.op = "register",
                              !.device_id = device_id,
                              !.device_context = r.self.device_registry[device_id],
                              !.overlapped = {}])
              ELSE Goto(t, [caller[t] EXCEPT
                              !.pc = "idle", !.op = "register",
                              !.device_id = device_id,
                              !.ok = FALSE, !.err = r.err, !.overlapped = {}])
    /\ calls' = calls + 1
    /\ UNCHANGED <<device_registry, mutex, observed>>
    /\ ModuleIdle

\* let mut registry = self.device_registry.lock().unwrap();
RegisterLock(t) ==
    /\ At(t, "register_lock")
    /\ lock(t)
    /\ Goto(t, [caller[t] EXCEPT !.pc = "insert"])
    /\ UNCHANGED <<device_registry, calls, observed>>
    /\ ModuleIdle

\* registry.insert(device_id.to_string(), device_context);
RegisterInsert(t) ==
    /\ At(t, "insert")
    /\ device_registry' = Insert(device_registry, caller[t].device_id,
                                 caller[t].device_context)
    /\ observed' = [observed EXCEPT ![caller[t].device_id] = <<>>]
    /\ Goto(t, [caller[t] EXCEPT !.pc = "register_return"])
    /\ UNCHANGED <<mutex, calls>>
    /\ ModuleIdle

\* Ok(patient_key), and the guard goes out of scope
RegisterReturn(t) ==
    /\ At(t, "register_return")
    /\ unlock(t)
    /\ Goto(t, [caller[t] EXCEPT !.pc = "idle", !.ok = TRUE, !.err = "",
                                  !.device_context = NoContext])
    /\ UNCHANGED <<device_registry, calls, observed>>
    /\ ModuleIdle

\* callers of one device at once, at one clock value, on clones of a
\* module constructed at clock 0
InitCallers ==
    /\ InitModule(Epoch)
    /\ caller = [t \in Callers |-> NewCaller(ModuleState)]

ConcIds == {DEV_A}
ConcPayloads == {Payload(5)}
NextCallers ==
    \E t \in Callers :
        \/ CallRegister(t, ConcIds, {<<80, 49>>}, Epoch)
        \/ RegisterLock(t)
        \/ RegisterInsert(t)
        \/ RegisterReturn(t)
        \/ CallEncrypt(t, ConcIds, ConcPayloads)
        \/ EncryptLock(t)
        \/ EncryptLookup(t)
        \/ EncryptSetKey(t)
        \/ EncryptDeriveIv(t, Epoch)
        \/ EncryptCipher(t)
        \/ EncryptAdvance(t)
        \/ EncryptHeartbeat(t, Epoch)
        \/ EncryptStoreIv(t)
        \/ EncryptReturn(t)
SpecCallers == InitCallers /\ [][NextCallers]_vars


\* ------------------------------------------------------------------------
\* Calls on the computation framework
\* ------------------------------------------------------------------------
Elapsed == {0}

\* a caller runs process_computation on one of contexts; gen_biguint returns
\* p and q from entropy.  No field of the framework is ever written, so a
\* call starts from the constructed framework whatever ran before it: a
\* behaviour is one call
ProcessComputation(contexts, entropy) ==
    \E context \in contexts, p \in entropy, q \in entropy, elapsed \in Elapsed :
        /\ ~framework.called
        /\ framework' = process_computation(context, p, q, elapsed)
        /\ FrameworkOnly

ProcessAny == ProcessComputation(Contexts, Entropy)
NextFramework == ProcessAny
InitFramework ==
    /\ InitModule(Epoch)
    /\ caller = EmptyMap
SpecFramework == InitFramework /\ [][NextFramework]_vars

\* ------------------------------------------------------------------------
\* Calls on the hash processor
\* ------------------------------------------------------------------------
\* the longest message the model hashes
MaxMessage == 130
ChunkLengths == {1, 55, 64}
\* the message byte at an offset: never zero and never the padding mark
MessageByte(offset) == (offset % 127) + 1
Chunk(from, n) == [i \in 1..n |-> MessageByte(from + i - 1)]

HashReset ==
    /\ hash_processor' = reset(hash_processor)
    /\ digest' = <<>>
    /\ HashOnly

\* the next n bytes of the message, n one of lengths
HashUpdate(lengths) ==
    \E n \in lengths :
        /\ digest = <<>>
        /\ hash_processor.message_length + n <= MaxMessage
        /\ hash_processor' = update(hash_processor,
                                    Chunk(hash_processor.message_length, n))
        /\ UNCHANGED digest
        /\ HashOnly

HashFinalize ==
    /\ digest = <<>>
    /\ LET r == finalize(hash_processor)
       IN  /\ hash_processor' = r.self
           /\ digest' = r.digest
    /\ HashOnly

HashUpdateAny == HashUpdate(ChunkLengths)
NextHash == HashReset \/ HashUpdateAny \/ HashFinalize
SpecHash == InitFramework /\ [][NextHash]_vars

\* ------------------------------------------------------------------------
\* Key derivations between other uses of the module
\* ------------------------------------------------------------------------
\* the most derivations in one behaviour
MaxDerivations == 3
KdfDevices == {DEV_A, DEV_B}
KdfPatients == { <<80, 49>> }

\* self.key_derivation.derive_patient_key(device_id, patient_id): it reads
\* the salt and its arguments and hashes with a processor of its own; the
\* log keeps what the module's hash processor had hashed at the time
DeriveKey ==
    \E device_id \in KdfDevices, patient_id \in KdfPatients :
        /\ Len(derived) < MaxDerivations
        /\ derived' = Append(derived,
               [salt |-> salt, device_id |-> device_id, patient_id |-> patient_id,
                key |-> derive_patient_key(salt, device_id, patient_id),
                hashed |-> hash_processor.message_length])
        /\ UNCHANGED hashUse
        /\ KdfOnly

HashUpdateBlock == HashUpdate({HASH_BLOCK_SIZE})
NextKdf == DeriveKey \/ HashReset \/ HashUpdateBlock \/ HashFinalize
SpecKdf == InitFramework /\ [][NextKdf]_vars

\* ------------------------------------------------------------------------
\* Operations of the module and the hash calls they issue
\* ------------------------------------------------------------------------
\* the most operations in one behaviour
MaxOps == 2
\* the payloads compute_medical_hash is called with
HashMessages == { Chunk(0, 3), Chunk(3, 60) }

HashUseFrame ==
    /\ UNCHANGED SessionVars
    /\ UNCHANGED <<FrameworkVars, StreamVars, BlockVars, construction, derived>>

\* encrypt_patient_data: it issues no call on a hash processor
OpEncrypt ==
    /\ hashUse.pc = "idle"
    /\ hashUse.ops < MaxOps
    /\ hashUse' = [hashUse EXCEPT !.ops = @ + 1]
    /\ UNCHANGED HashVars
    /\ HashUseFrame

\* compute_medical_hash(data) is entered
OpComputeHash ==
    /\ hashUse.pc = "idle"
    /\ hashUse.ops < MaxOps
    /\ \E data \in HashMessages :
        hashUse' = [hashUse EXCEPT !.pc = "compute_medical_hash", !.k = 1,
                                   !.data = data, !.ops = @ + 1]
    /\ UNCHANGED HashVars
    /\ HashUseFrame

\* register_medical_device enters derive_patient_key, which constructs a
\* processor of its own
OpRegister ==
    /\ hashUse.pc = "idle"
    /\ hashUse.ops < MaxOps
    /\ hashUse' = [hashUse EXCEPT !.pc = "derive_patient_key", !.k = 1,
                                  !.data = <<>>, !.ops = @ + 1,
                                  !.phase.local = "new"]
    /\ UNCHANGED HashVars
    /\ HashUseFrame

\* the next call of compute_medical_hash on the module's processor; after
\* finalize the digest is returned
CallOnModule ==
    /\ hashUse.pc = "compute_medical_hash"
    /\ LET calls_of == compute_medical_hash(hashUse.data)
           c == calls_of[hashUse.k]
           r == IF c.call = "reset" THEN [self |-> reset(hash_processor), digest |-> <<>>]
                ELSE IF c.call = "update"
                THEN [self |-> update(hash_processor, c.data), digest |-> digest]
                ELSE finalize(hash_processor)
           done == hashUse.k = Len(calls_of)
       IN  /\ hash_processor' = r.self
           /\ digest' = r.digest
           /\ hashUse' = [hashUse EXCEPT
                  !.pc = IF done THEN "idle" ELSE @,
                  !.k = IF done THEN 0 ELSE @ + 1,
                  !.phase.module = AfterCall(@, c.call),
                  !.issued = [on |-> "module", call |-> c.call,
                              before |-> hashUse.phase.module],
                  !.returned = IF done THEN @ \cup {<<hashUse.data, r.digest>>} ELSE @]
    /\ HashUseFrame

\* the next call of derive_patient_key on its own processor; after the
\* last one the processor is dropped
CallOnLocal ==
    /\ hashUse.pc = "derive_patient_key"
    /\ LET call == derive_patient_key_call(hashUse.k)
           done == hashUse.k = DeriveCallCount
       IN  hashUse' = [hashUse EXCEPT
               !.pc = IF done THEN "idle" ELSE @,
               !.k = IF done THEN 0 ELSE @ + 1,
               !.phase.local = IF done THEN "none" ELSE AfterCall(@, call),
               !.issued = [on |-> "local", call |-> call,
                           before |-> hashUse.phase.local]]
    /\ UNCHANGED HashVars
    /\ HashUseFrame

NextHashUse == OpEncrypt \/ OpComputeHash \/ OpRegister \/ CallOnModule \/ CallOnLocal
SpecHashUse == InitFramework /\ [][NextHashUse]_vars

\* ------------------------------------------------------------------------
\* MedicalSecurityModule::new, step by step
\* ------------------------------------------------------------------------
\* the largest clock reading at construction
MaxNanos == 63
Nanos == 0..MaxNanos

\* SymmetricEncryptionEngine::new
NewRoundKeys == [round \in 0..(ROUND_KEY_COUNT - 1) |-> [i \in 0..3 |-> ZeroWord]]

\* the struct literal of new: every component as its constructor leaves it
InitNew ==
    /\ device_registry = EmptyMap
    /\ round_keys = NewRoundKeys
    /\ stream_cipher = NewStreamCipher
    /\ salt = NewSalt
    /\ calls = 0
    /\ lastCall = NoCall
    /\ lastEnc = [d \in DeviceIds |-> NoEnc]
    /\ ivLog = {}
    /\ mutex = 0
    /\ observed = [d \in DeviceIds |-> <<>>]
    /\ caller = EmptyMap
    /\ framework = NewFramework
    /\ probe = NoProbe
    /\ parallel = NoParallel
    /\ encryption_engine = NoEngine
    /\ keystream = NoStream
    /\ firstStream = NoStream
    /\ streamRun = NoRun
    /\ hash_processor = NewHashProcessor
    /\ digest = <<>>
    /\ derived = <<>>
    /\ hashUse = NoHashUse
    /\ construction = "setup_key_schedule"

\* initialize_security_parameters: the entropy seed of the clock reading
\* and its key schedule
NewKeySchedule ==
    \E nanos \in Nanos :
        /\ construction = "setup_key_schedule"
        /\ round_keys' = setup_key_schedule(LitSeq(generate_medical_entropy(nanos)))
        /\ construction' = "initialize_salt"
        /\ UNCHANGED <<device_registry, stream_cipher, salt, calls, lastCall,
                       lastEnc, ivLog, mutex, caller, observed>>
        /\ UNCHANGED <<FrameworkVars, HashVars, KdfVars, StreamVars, BlockVars>>

\* initialize_security_parameters: the salt; new returns the module when
\* initialize_salt returns
NewInitializeSalt ==
    /\ construction = "initialize_salt"
    /\ LET r == initialize_salt(salt)
       IN  /\ salt' = r.salt
           /\ construction' = IF r.panic THEN "panicked" ELSE "returned"
    /\ UNCHANGED <<device_registry, round_keys, stream_cipher, calls, lastCall,
                   lastEnc, ivLog, mutex, caller, observed>>
    /\ UNCHANGED <<FrameworkVars, HashVars, KdfVars, StreamVars, BlockVars>>

NextNew == NewKeySchedule \/ NewInitializeSalt
SpecNew == InitNew /\ [][NextNew]_vars

\* ------------------------------------------------------------------------
\* Calls on the stream cipher
\* ------------------------------------------------------------------------
\* the most bytes drawn after one initialize
MaxStream == 4
StreamKeys == { [i \in 1..PATIENT_KEY_SIZE |-> Lit(i + k)] : k \in {0, 100} }
StreamNonces == { [i \in 1..NONCE_SIZE |-> Lit(i + k)] : k \in {0, 100} }

StreamFrame ==
    /\ UNCHANGED streamRun
    /\ UNCHANGED <<device_registry, round_keys, salt, calls, lastCall,
                   lastEnc, ivLog, mutex, caller, observed>>
    /\ UNCHANGED <<FrameworkVars, HashVars, KdfVars, BlockVars, construction>>

\* initialize(key, nonce); the bytes drawn since the first initialize are
\* kept once, as drawn before the second one
StreamInitialize ==
    \E key \in StreamKeys, nonce \in StreamNonces :
        /\ stream_cipher' = initialize(stream_cipher, key, nonce)
        /\ keystream' = [key |-> key, nonce |-> nonce, bytes |-> <<>>]
        /\ firstStream' = IF firstStream = NoStream THEN keystream ELSE firstStream
        /\ StreamFrame

\* next_byte
StreamNextByte ==
    /\ Len(keystream.bytes) < MaxStream
    /\ LET nb == next_byte(stream_cipher)
       IN  /\ stream_cipher' = nb.cipher
           /\ keystream' = [keystream EXCEPT !.bytes = Append(@, nb.byte)]
    /\ UNCHANGED firstStream
    /\ StreamFrame

NextStream == StreamInitialize \/ StreamNextByte
SpecStream == InitFramework /\ [][NextStream]_vars

\* ------------------------------------------------------------------------
\* One session of the stream cipher, block by block
\* ------------------------------------------------------------------------
\* the most keystream blocks generated in the session
MaxBlocks == 3
\* 64-bit counts, least significant byte first
Count64(b0, b1, b2, b3, b4, b5, b6, b7) ==
    <<Lit(b0), Lit(b1), Lit(b2), Lit(b3), Lit(b4), Lit(b5), Lit(b6), Lit(b7)>>
\* the number of blocks the session has generated when it is picked up,
\* and the number before that: none, 2^32 - 2, 2^64 - 2
SessionStarts ==
    { [at |-> Count64(0, 0, 0, 0, 0, 0, 0, 0), before |-> <<>>],
      [at |-> Count64(254, 255, 255, 255, 0, 0, 0, 0),
       before |-> Count64(253, 255, 255, 255, 0, 0, 0, 0)],
      [at |-> Count64(254, 255, 255, 255, 255, 255, 255, 255),
       before |-> Count64(253, 255, 255, 255, 255, 255, 255, 255)] }

\* the cipher of a session after `at` blocks were generated and drawn to
\* their last byte: the counter words hold at, the buffer holds the block
\* generated from the counter before, the position is at its end
AfterBlocks(cipher, start) ==
    IF Len(start.before) = 0 THEN cipher
    ELSE [cipher EXCEPT
            !.keystream_buffer =
                [ks |-> StateBytes([cipher.internal_state EXCEPT
                                       ![12] = SubSeq(start.before, 1, 4),
                                       ![13] = SubSeq(start.before, 5, 8)])],
            !.internal_state = [cipher.internal_state EXCEPT
                                   ![12] = SubSeq(start.at, 1, 4),
                                   ![13] = SubSeq(start.at, 5, 8)],
            !.buffer_position = KEYSTREAM_BLOCK_SIZE]

CounterFrame ==
    /\ UNCHANGED <<device_registry, round_keys, salt, calls, lastCall,
                   lastEnc, ivLog, mutex, caller, observed>>
    /\ UNCHANGED <<FrameworkVars, HashVars, KdfVars, BlockVars, construction>>
    /\ UNCHANGED <<keystream, firstStream>>

\* initialize(key, nonce), and the session picked up at one of its starts
SessionInitialize ==
    /\ streamRun.phase = "none"
    /\ \E key \in StreamKeys, nonce \in StreamNonces, start \in SessionStarts :
        /\ stream_cipher' = AfterBlocks(initialize(stream_cipher, key, nonce), start)
        /\ streamRun' = [phase |-> "drawing", start |-> start.at,
                         generated |-> Count64(0, 0, 0, 0, 0, 0, 0, 0),
                         inputs |-> <<>>, drawn |-> 0, last |-> Lit(0)]
    /\ CounterFrame

\* next_byte; a block was generated when the words of the state changed,
\* and it was generated from the words before the call
SessionNextByte ==
    /\ streamRun.phase = "drawing"
    /\ streamRun.drawn < MaxBlocks * KEYSTREAM_BLOCK_SIZE
    /\ LET nb == next_byte(stream_cipher)
           fresh == nb.cipher.internal_state # stream_cipher.internal_state
       IN  /\ stream_cipher' = nb.cipher
           /\ streamRun' = [streamRun EXCEPT
                              !.generated = IF fresh THEN IncBytes(@, 1) ELSE @,
                              !.inputs = IF fresh
                                         THEN Append(@, stream_cipher.internal_state)
                                         ELSE @,
                              !.drawn = @ + 1,
                              !.last = nb.byte]
    /\ CounterFrame

NextCounter == SessionInitialize \/ SessionNextByte
SpecCounter == InitFramework /\ [][NextCounter]_vars

\* ------------------------------------------------------------------------
\* Block transforms on chosen blocks
\* ------------------------------------------------------------------------
\* the largest byte a probe key starts with
MaxKeyByte == 1
ProbeKeys == { [i \in 1..PATIENT_KEY_SIZE |-> (k + 3 * (i - 1)) % 256] : k \in 0..MaxKeyByte }
\* blocks that differ from one another in the first or the last byte
ProbeBytes == {0, 1, 80, 81, 255}
ProbeBlocks ==
    { [i \in 1..MEDICAL_BLOCK_SIZE |-> IF i = 1 THEN v ELSE IF i = 16 THEN w ELSE i] :
        v \in ProbeBytes, w \in {16, 17} }

ProbeFrame ==
    /\ UNCHANGED SessionVars
    /\ UNCHANGED <<parallel, encryption_engine>>
    /\ UNCHANGED <<FrameworkVars, HashVars, KdfVars, StreamVars, construction>>

\* set_patient_key(key), then encrypt_block on two blocks
EncryptBlocks ==
    \E key \in ProbeKeys :
        LET schedule == key_schedule(key)
            encrypted == { <<x, block_rounds(schedule, x)>> : x \in ProbeBlocks }
        IN  \E a \in encrypted, b \in encrypted :
                /\ probe = NoProbe
                /\ probe' = [engine |-> "SymmetricEncryptionEngine", key |-> key,
                              a |-> a[1], b |-> b[1],
                              out_a |-> a[2], out_b |-> b[2]]
                /\ ProbeFrame

\* 16-byte keys of process_regional_algorithms
RegionalKeys ==
    { [i \in 1..REGIONAL_KEY_SIZE |-> (17 * k + 5 * (i - 1)) % 256] : k \in 0..MaxKeyByte }
\* a block with one bit set, in byte i
UnitBlock(i) == [k \in 1..REGIONAL_BLOCK_SIZE |-> IF k = i THEN 1 ELSE 0]
RegionalProbeBlocks ==
    ProbeBlocks \cup { UnitBlock(i) : i \in {1, 15, 16} }
         \cup { [k \in 1..REGIONAL_BLOCK_SIZE |-> v] : v \in {0, 255} }

\* process_regional_block on two blocks under one key
RegionalBlocks ==
    \E key \in RegionalKeys :
        LET processed == { <<x, process_regional_block(x, key)>> : x \in RegionalProbeBlocks }
        IN  \E a \in processed, b \in processed :
                /\ probe = NoProbe
                /\ probe' = [engine |-> "RegionalComputationalEngine", key |-> key,
                              a |-> a[1], b |-> b[1],
                              out_a |-> a[2], out_b |-> b[2]]
                /\ ProbeFrame

\* a key with other bytes from position from on (positions from 0)
OtherFrom(key, from) ==
    [i \in 1..Len(key) |-> IF i > from THEN (key[i] + 101) % 256 ELSE key[i]]
\* keys that differ from key in byte 31, in bytes 16..31, in bytes 15..31
KeyVariants(key) == { OtherFrom(key, 31), OtherFrom(key, 16), OtherFrom(key, 15) }

\* set_patient_key on a new engine and encrypt_block on one block, under a
\* key and under a variant of it
ScheduleTwoKeys ==
    \E key \in ProbeKeys, block \in { x \in ProbeBlocks : x[1] = 255 } :
        \E other \in KeyVariants(key) :
            LET schedule == set_patient_key(ZeroRoundKeys, key)
                other_schedule == set_patient_key(ZeroRoundKeys, other)
            IN  /\ probe = NoProbe
                /\ probe' = [engine |-> "setup_key_schedule", key |-> key,
                              other |-> other, block |-> block,
                              schedule |-> schedule,
                              other_schedule |-> other_schedule,
                              out |-> block_rounds(schedule, block),
                              other_out |-> block_rounds(other_schedule, block)]
                /\ ProbeFrame

NextBlock == EncryptBlocks \/ RegionalBlocks \/ ScheduleTwoKeys
SpecBlock == InitFramework /\ [][NextBlock]_vars

\* ------------------------------------------------------------------------
\* One engine under the keys of several sessions
\* ------------------------------------------------------------------------
\* clock readings of generate_medical_entropy
EngineNanos == {0, 1, 2}

EngineFrame ==
    /\ UNCHANGED SessionVars
    /\ UNCHANGED <<FrameworkVars, HashVars, KdfVars, StreamVars, construction,
                   probe, parallel>>

\* MedicalSecurityModule::new: SymmetricEncryptionEngine::new, then
\* setup_key_schedule(&entropy)
EngineNew ==
    /\ encryption_engine.phase = "none"
    /\ \E nanos \in EngineNanos :
        encryption_engine' = [encryption_engine EXCEPT
            !.phase = "ready",
            !.round_keys = set_patient_key(ZeroRoundKeys,
                                           generate_medical_entropy(nanos))]
    /\ EngineFrame

\* register_medical_device: the session of the device gets a patient key;
\* the engine is not used
EngineRegister ==
    /\ encryption_engine.phase = "ready"
    /\ \E device_id \in KdfDevices, patient_key \in ProbeKeys :
        encryption_engine' = [encryption_engine EXCEPT
            !.sessions = [d \in (DOMAIN encryption_engine.sessions) \cup {device_id} |->
                             IF d = device_id THEN patient_key
                             ELSE encryption_engine.sessions[d]]]
    /\ EngineFrame

\* encrypt_patient_data up to encrypt_with_block_cipher: the session is
\* looked up and the engine is keyed with its patient key; encrypt_block
\* then reads the round keys the engine holds
EngineEncrypt ==
    /\ encryption_engine.phase = "ready"
    /\ \E device_id \in DOMAIN encryption_engine.sessions :
        LET patient_key == encryption_engine.sessions[device_id]
            keyed == set_patient_key(encryption_engine.round_keys, patient_key)
        IN  encryption_engine' = [encryption_engine EXCEPT
                !.round_keys = keyed,
                !.last = [device_id |-> device_id, key |-> patient_key,
                          before |-> encryption_engine.round_keys, used |-> keyed]]
    /\ EngineFrame

NextEngine == EngineNew \/ EngineRegister \/ EngineEncrypt
SpecEngine == InitFramework /\ [][NextEngine]_vars

\* ------------------------------------------------------------------------
\* Parallel block calls, worker by worker
\* ------------------------------------------------------------------------
\* the longest data, the most workers that run at once
MaxData == 33
MaxWorkers == 2
ParallelLengths == { n \in 0..MaxData : n % 8 \in {0, 1} \/ n = MaxData }
ParallelData(n) == [i \in 1..n |-> ((i * 37) % 251) + 1]
\* keys of thread_rng
ParallelKeys(engine) ==
    { [i \in 1..EngineKeySize(engine) |-> (k + 11 * (i - 1)) % 256] : k \in {1, 2} }

ParallelFrame ==
    /\ UNCHANGED SessionVars
    /\ UNCHANGED <<FrameworkVars, HashVars, KdfVars, StreamVars, construction, probe, encryption_engine>>

\* process_linear_transforms, apply_korean_block_cipher,
\* apply_regional_cipher up to par_iter: the key is drawn, the data is
\* partitioned
ParallelCall ==
    /\ parallel.phase = "idle"
    /\ \E engine \in ParallelEngines, n \in ParallelLengths :
        \E key \in ParallelKeys(engine) :
            LET blocks == EnginePartition(engine, ParallelData(n))
            IN  parallel' = [engine |-> engine, phase |-> "map",
                             data |-> ParallelData(n), key |-> key,
                             blocks |-> blocks,
                             taken |-> [i \in 1..Len(blocks) |-> 0],
                             running |-> {},
                             slots |-> [i \in 1..Len(blocks) |-> <<>>],
                             finished |-> <<>>, output |-> <<>>]
    /\ ParallelFrame

\* a worker takes a block no worker has taken
WorkerTake ==
    /\ parallel.phase = "map"
    /\ Cardinality(parallel.running) < MaxWorkers
    /\ \E i \in 1..Len(parallel.blocks) :
        /\ parallel.taken[i] = 0
        /\ parallel' = [parallel EXCEPT !.taken[i] = @ + 1,
                                        !.running = @ \cup {i}]
    /\ ParallelFrame

\* a worker's closure returns: its result goes to the place of its block
WorkerFinish ==
    /\ parallel.phase = "map"
    /\ \E i \in parallel.running :
        parallel' = [parallel EXCEPT
                        !.running = @ \ {i},
                        !.slots[i] = MapBlock(parallel.engine, parallel.blocks[i],
                                              parallel.key),
                        !.finished = Append(@, i)]
    /\ ParallelFrame

\* collect in the order workers finished
collect_as_finished(p) ==
    [k \in 1..Len(p.finished) |-> p.slots[p.finished[k]]]
\* collect of an indexed parallel iterator: the results in the order of
\* the blocks
collect(p) ==
    [k \in 1..Len(p.blocks) |-> p.slots[k]]

\* collect, then into_iter().flatten().collect(), when every block is done
ParallelCollect ==
    /\ parallel.phase = "map"
    /\ Len(parallel.finished) = Len(parallel.blocks)
    /\ parallel' = [parallel EXCEPT !.phase = "returned",
                                    !.output = flatten(collect(parallel))]
    /\ ParallelFrame

NextParallel == ParallelCall \/ WorkerTake \/ WorkerFinish \/ ParallelCollect
SpecParallel == InitFramework /\ [][NextParallel]_vars

\* ------------------------------------------------------------------------
\* Properties of register and encrypt
\* ------------------------------------------------------------------------
\* the step is a call of encrypt that returned a ciphertext
EncryptReturns == calls' = calls + 1 /\ lastCall'.op = "encrypt" /\ lastCall'.ok
\* the step is a call of register that returned a key
RegisterReturns == calls' = calls + 1 /\ lastCall'.op = "register" /\ lastCall'.ok
EncryptReturned == lastCall.op = "encrypt" /\ lastCall.ok

\* C1: no two encrypt calls for the same device under the same session key
\* use the same derived IV: the IV of the last encrypt was used by no
\* earlier encrypt of that device under that key.
C1_NoIvReuse == Logged \cap ivLog = {}

\* C2: for a registered device, the second of two consecutive successful
\* encrypt calls (no register in between) derives a 16-byte IV different
\* from the first one's and reads a strictly greater counter, whatever the
\* clock returns.
C2_ConsecutiveIvsDiffer ==
    [][ (EncryptReturns /\ lastEnc[lastCall'.device_id].valid) =>
          LET first == lastEnc[lastCall'.device_id]
              second == lastEnc'[lastCall'.device_id]
          IN  /\ Len(first.iv) = MEDICAL_BLOCK_SIZE
              /\ Len(second.iv) = MEDICAL_BLOCK_SIZE
              /\ second.iv # first.iv
              /\ second.counter > first.counter ]_vars

\* two consecutive encrypts of one device that read the same clock value
C2_Witness ==
    /\ EncryptReturned
    /\ lastCall.counter = 1
    /\ \E e \in ivLog :
          /\ e[1] = lastCall.device_id
          /\ SubSeq(e[3], 1, 8) = SubSeq(lastCall.iv, 1, 8)

\* C3: encrypting the same payload of more than 16 bytes twice in a row for
\* a registered device yields two different ciphertexts with different
\* 8-byte nonces, for every pair of clock values.
C3_SamePayloadDiffers ==
    [][ (/\ EncryptReturns
         /\ lastEnc[lastCall'.device_id].valid
         /\ lastEnc[lastCall'.device_id].data = lastCall'.arg
         /\ Len(lastCall'.arg) > MEDICAL_BLOCK_SIZE) =>
          /\ lastCall'.out # lastEnc[lastCall'.device_id].out
          /\ SubSeq(lastCall'.out, 1, NONCE_SIZE)
               # SubSeq(lastEnc[lastCall'.device_id].out, 1, NONCE_SIZE) ]_vars

\* C4: encrypt for a device id without a session returns the not-registered
\* error and changes neither the registry nor the engines.
C4_UnknownDeviceNoChange ==
    [][ (/\ calls' = calls + 1
         /\ lastCall'.op = "encrypt"
         /\ lastCall'.device_id \notin DOMAIN device_registry) =>
          /\ ~lastCall'.ok
          /\ lastCall'.err = "Device not registered"
          /\ device_registry' = device_registry
          /\ round_keys' = round_keys
          /\ stream_cipher' = stream_cipher
          /\ salt' = salt ]_vars

\* encrypt failed for an unknown id while another device holds a session
\* that has encrypted with both engines
C4_Witness ==
    /\ lastCall.op = "encrypt"
    /\ ~lastCall.ok
    /\ \E d \in DOMAIN device_registry : device_registry[d].encryption_counter > 0
    /\ stream_cipher # NewStreamCipher

\* C5: register with a device id whose length is not 12 returns the
\* invalid-input error and leaves the registry unchanged.
C5_WrongLengthRejected ==
    [][ (/\ calls' = calls + 1
         /\ lastCall'.op = "register"
         /\ Len(lastCall'.device_id) # DEVICE_ID_LENGTH) =>
          /\ ~lastCall'.ok
          /\ lastCall'.err = "Invalid device ID length"
          /\ device_registry' = device_registry ]_vars

\* register failed for a 13-byte id while a session exists
C5_Witness ==
    /\ lastCall.op = "register"
    /\ ~lastCall.ok
    /\ Len(lastCall.device_id) > DEVICE_ID_LENGTH
    /\ DOMAIN device_registry # {}

\* C6: a successful register(device_id, subject_id) leaves exactly one
\* session for device_id, with the derived key, an all-zero stored IV and
\* counter 0, in place of any earlier session; the other sessions stay and
\* an already registered id adds no session.
C6_RegisterReplaces ==
    [][ RegisterReturns =>
          LET d == lastCall'.device_id
              key == derive_patient_key(salt, d, lastCall'.arg)
          IN  /\ DOMAIN device_registry' = (DOMAIN device_registry) \cup {d}
              /\ d \in DOMAIN device_registry =>
                    Cardinality(DOMAIN device_registry')
                      = Cardinality(DOMAIN device_registry)
              /\ device_registry'[d].device_id = d
              /\ device_registry'[d].patient_key = key
              /\ Len(key) = PATIENT_KEY_SIZE
              /\ device_registry'[d].session_state
                   = [i \in 1..MEDICAL_BLOCK_SIZE |-> 0]
              /\ device_registry'[d].encryption_counter = 0
              /\ lastCall'.out = key ]_vars

\* a device that has encrypted is registered again for the other patient
C6_Witness ==
    /\ lastCall.op = "register"
    /\ lastCall.ok
    /\ device_registry[lastCall.device_id].encryption_counter = 0
    /\ \E e \in ivLog :
          /\ e[1] = lastCall.device_id
          /\ e[2] # Pack(device_registry[lastCall.device_id].patient_key)

\* C7: every successful encrypt for a device increases that device's
\* encryption counter by exactly 1, derives its IV from the session as it
\* was before the call, leaves that IV in the session, and returns a
\* ciphertext that starts with it: all 16 bytes on the block path, the
\* first 8 (the nonce) on the stream path.
C7_EncryptAdvancesCounter ==
    [][ EncryptReturns =>
          LET d == lastCall'.device_id
              before == device_registry[d]
              after == device_registry'[d]
              iv == lastCall'.iv
              out == lastCall'.out
              n == IF Len(lastCall'.arg) <= MEDICAL_BLOCK_SIZE
                   THEN MEDICAL_BLOCK_SIZE ELSE NONCE_SIZE
          IN  /\ after.encryption_counter = before.encryption_counter + 1
              /\ \E t \in Clock : iv = generate_device_iv(before, t)
              /\ after.session_state = iv
              /\ after.patient_key = before.patient_key
              /\ Len(out) >= n
              /\ SubSeq(out, 1, n) = LitSeq(SubSeq(iv, 1, n)) ]_vars

\* the third encrypt of a session, on the stream path, at a clock value
\* that changes the IV
C7_Witness ==
    /\ EncryptReturned
    /\ lastCall.counter = 2
    /\ device_registry[lastCall.device_id].encryption_counter = 3
    /\ Len(lastCall.arg) > MEDICAL_BLOCK_SIZE
    /\ SubSeq(lastCall.iv, 1, DEVICE_ID_LENGTH) # lastCall.device_id

\* C8: encrypt selects its path by the payload length alone.  Up to 16
\* bytes: the output is the 16-byte IV followed by blocks of Engine A under
\* the schedule of the session key, the first one fed payload ^ IV.  More
\* than 16 bytes (n): the output is the first 8 IV bytes followed by n
\* bytes, byte i being payload[i] ^ keystream byte i of the stream cipher
\* state (constants, session key, block counter, those 8 bytes): n + 8 bytes.
C8_PathByLength ==
    EncryptReturned =>
        LET data == lastCall.arg
            n == Len(data)
            out == lastCall.out
            iv == lastCall.iv
            key == device_registry[lastCall.device_id].patient_key
            zero == LeWord(0, 0, 0, 0)
            state(block) ==
                Pack(StreamConstants[1] \o StreamConstants[2]
                     \o StreamConstants[3] \o StreamConstants[4]
                     \o key \o LeWord(block, 0, 0, 0) \o zero
                     \o LitSeq(SubSeq(iv, 1, NONCE_SIZE)))
        IN  IF n <= MEDICAL_BLOCK_SIZE
            THEN /\ Len(out) >= MEDICAL_BLOCK_SIZE
                 /\ SubSeq(out, 1, MEDICAL_BLOCK_SIZE) = LitSeq(iv)
                 /\ \A i \in (MEDICAL_BLOCK_SIZE + 1)..Len(out) :
                       /\ IsTermByte(out[i])
                       /\ "E" \in DOMAIN out[i].of
                       /\ out[i].of.rk = [expanded |-> Pack(SubSeq(key, 1, 16))]
                       /\ out[i].ix = ((i - 1) % MEDICAL_BLOCK_SIZE) + 1
                 /\ \A i \in 1..n :
                       out[MEDICAL_BLOCK_SIZE + 1].of.E[i] = Lit(Xor8(data[i], iv[i]))
            ELSE /\ Len(out) = n + NONCE_SIZE
                 /\ SubSeq(out, 1, NONCE_SIZE) = LitSeq(SubSeq(iv, 1, NONCE_SIZE))
                 /\ \A i \in 1..n :
                       out[NONCE_SIZE + i] =
                           [xor |-> <<Lit(data[i]),
                                      [of |-> [ks |-> state((i - 1) \div KEYSTREAM_BLOCK_SIZE)],
                                       ix |-> ((i - 1) % KEYSTREAM_BLOCK_SIZE) + 1]>>]

\* a 17-byte payload went to the stream cipher after a 16-byte payload went
\* to Engine A in the same session
C8_Witness ==
    /\ EncryptReturned
    /\ Len(lastCall.arg) = MEDICAL_BLOCK_SIZE + 1
    /\ Len(lastCall.out) = MEDICAL_BLOCK_SIZE + 1 + NONCE_SIZE
    /\ \E e \in ivLog : e[1] = lastCall.device_id /\ e[3] # lastCall.iv

\* C9: for every payload of 0..16 bytes the block path extends the
\* plaintext by p bytes of value p, 1 <= p <= 16, and the output is the IV
\* followed by that padded plaintext's blocks, at least one.  The padded
\* plaintext is read back from the output: the block fed to Engine A, xored
\* with the previous block.
C9_PkcsPadding ==
    (EncryptReturned /\ Len(lastCall.arg) <= MEDICAL_BLOCK_SIZE) =>
        LET data == lastCall.arg
            n == Len(data)
            out == lastCall.out
            blocks == (Len(out) - MEDICAL_BLOCK_SIZE) \div MEDICAL_BLOCK_SIZE
            p == blocks * MEDICAL_BLOCK_SIZE - n
            fed(k) == out[MEDICAL_BLOCK_SIZE * ((k - 1) \div MEDICAL_BLOCK_SIZE + 1) + 1]
                          .of.E[((k - 1) % MEDICAL_BLOCK_SIZE) + 1]
            plain(k) == IF IsLit(fed(k))
                        THEN Xor8(fed(k).lit, out[k].lit)
                        ELSE fed(k).xor[1].lit
        IN  /\ Len(out) = MEDICAL_BLOCK_SIZE * (blocks + 1)
            /\ blocks >= 1
            /\ p \in 1..MEDICAL_BLOCK_SIZE
            /\ \A k \in 1..n : plain(k) = data[k]
            /\ \A k \in (n + 1)..(n + p) : plain(k) = p

\* the callers that hold a session reference inside encrypt_patient_data
InsideEncrypt ==
    {t \in Callers :
        caller[t].pc \in {"get_mut", "set_patient_key", "generate_device_iv",
                          "cipher", "encryption_counter", "last_heartbeat",
                          "session_state", "encrypt_return"}}

\* C10: with several callers in encrypt at once on one registry, at most
\* one of them is between its session lookup and its return, so the steps
\* of two calls never interleave; the encrypts of a device since its
\* registration read the counters 0, 1, 2, ... (k calls, k distinct
\* values), and the stored counter is the number of those calls that have
\* advanced it (k once they have returned).
C10_EncryptsNeverInterleave ==
    /\ Cardinality(InsideEncrypt) <= 1
    /\ \A d \in DOMAIN device_registry :
          LET pending == {t \in Encrypting(d) :
                             caller[t].pc \in {"cipher", "encryption_counter"}}
          IN  /\ \A i \in 1..Len(observed[d]) : observed[d][i] = i - 1
              /\ device_registry[d].encryption_counter + Cardinality(pending)
                   = Len(observed[d])

\* two callers were in encrypt for one device at once: the one that called
\* first has returned Ok, the one that called during that call has stored
\* its IV and is about to return Ok; the counters read since the
\* registration are 0 and 1, the second caller read 1, the stored counter
\* is 2
C10_Witness ==
    \E t, u \in Callers :
        /\ t # u
        /\ caller[t].pc = "idle" /\ caller[t].op = "encrypt" /\ caller[t].ok
        /\ caller[u].pc = "encrypt_return"
        /\ caller[u].device_id = caller[t].device_id
        /\ t \in caller[u].overlapped
        /\ caller[u].counter = 1
        /\ observed[caller[u].device_id] = <<0, 1>>
        /\ device_registry[caller[u].device_id].encryption_counter = 2

\* ------------------------------------------------------------------------
\* C11: for every context the pipeline is the public key pair
\* <<LargeIntegerArithmetic, PolynomialFieldComputation>> exactly when the
\* security level is Enhanced, Maximum or Enterprise, then
\* MatrixLinearTransformation, then <<KoreanMathematicalOperations,
\* RegionalComputationalAlgorithms>> exactly when the compliance
\* requirements contain "korean_standards", then DigestComputationEngine
\* last; no stage occurs twice.
C11_PipelineShape ==
    framework.called =>
        LET context == framework.context
            pipeline == framework.pipeline
            enhanced == context.security_level \in {"Enhanced", "Maximum", "Enterprise"}
            regional == \E i \in 1..Len(context.compliance_requirements) :
                            context.compliance_requirements[i] = "korean_standards"
            head == IF enhanced THEN 2 ELSE 0
            tail == IF regional THEN 2 ELSE 0
        IN  /\ Len(pipeline) = head + 1 + tail + 1
            /\ enhanced => /\ pipeline[1] = "LargeIntegerArithmetic"
                           /\ pipeline[2] = "PolynomialFieldComputation"
            /\ pipeline[head + 1] = "MatrixLinearTransformation"
            /\ regional => /\ pipeline[head + 2] = "KoreanMathematicalOperations"
                           /\ pipeline[head + 3] = "RegionalComputationalAlgorithms"
            /\ pipeline[Len(pipeline)] = "DigestComputationEngine"
            /\ \A i, j \in 1..Len(pipeline) : pipeline[i] = pipeline[j] => i = j
            /\ (context.security_level = "Standard" /\ context.compliance_requirements = <<>>)
                  => pipeline = <<"MatrixLinearTransformation", "DigestComputationEngine">>

\* a Maximum context whose second requirement is the regional one got
\* all six stages
C11_Witness ==
    /\ framework.called
    /\ framework.context.security_level = "Maximum"
    /\ framework.context.compliance_requirements = <<"iso_27001", "korean_standards">>
    /\ framework.pipeline =
           <<"LargeIntegerArithmetic", "PolynomialFieldComputation",
             "MatrixLinearTransformation", "KoreanMathematicalOperations",
             "RegionalComputationalAlgorithms", "DigestComputationEngine">>

\* ------------------------------------------------------------------------
\* C12: in every result process_computation returns, quantum_vulnerability
\* is High exactly when LargeIntegerArithmetic or PolynomialFieldComputation
\* ran and Low otherwise, korean_compliance is true exactly when
\* KoreanMathematicalOperations ran, integrity_verified is true exactly
\* when DigestComputationEngine ran, and operation_metrics has exactly one
\* entry per stage that ran.
C12_AssessmentFollowsStages ==
    (framework.called /\ framework.outcome = "ok") =>
        LET Ran(operation) == \E i \in 1..Len(framework.ran) :
                                  framework.ran[i] = operation
        IN  /\ framework.quantum_vulnerability =
                   IF Ran("LargeIntegerArithmetic") \/ Ran("PolynomialFieldComputation")
                   THEN "High" ELSE "Low"
            /\ framework.korean_compliance <=> Ran("KoreanMathematicalOperations")
            /\ framework.integrity_verified <=> Ran("DigestComputationEngine")
            /\ DOMAIN framework.operation_metrics =
                   { framework.ran[i] : i \in 1..Len(framework.ran) }
            /\ Cardinality(DOMAIN framework.operation_metrics) = Len(framework.ran)

\* a result of the public key stages and the regional stages, and one of
\* neither
C12_Witness ==
    /\ framework.called
    /\ framework.outcome = "ok"
    /\ framework.context.security_level = "Enhanced"
    /\ Len(framework.ran) = 6
    /\ framework.quantum_vulnerability = "High"
    /\ framework.korean_compliance
    /\ framework.integrity_verified

\* ------------------------------------------------------------------------
\* C13: for every context and every value the random source returns, zero
\* included, process_computation returns a result or an error: no stage
\* panics, and LargeIntegerArithmetic never reduces modulo zero.
C13_NeverAborts ==
    framework.called =>
        /\ framework.outcome # "panic"
        /\ (\E i \in 1..Len(framework.pipeline) :
                framework.pipeline[i] = "LargeIntegerArithmetic")
              => framework.p * framework.q # 0

\* the message length and the blocks compressed once finalize has returned
Finalized == digest # <<>>
TailLength == hash_processor.message_length % HASH_BLOCK_SIZE
LastBlock == hash_processor.state[Len(hash_processor.state)]
CompressionCounts ==
    /\ ~Finalized =>
          Len(hash_processor.state) = hash_processor.message_length \div HASH_BLOCK_SIZE
    /\ Finalized =>
          Len(hash_processor.state) =
              (hash_processor.message_length \div HASH_BLOCK_SIZE)
              + (IF TailLength <= 55 THEN 1 ELSE 2)
LengthAtEnd ==
    Finalized =>
        from_bytes_be(SubSeq(LastBlock, LENGTH_OFFSET + 1, HASH_BLOCK_SIZE))
            = hash_processor.message_length * 8
NoOverrunAndDigestSize ==
    /\ ~hash_processor.panic
    /\ Finalized => Len(digest) = DIGEST_OUTPUT_SIZE

\* ------------------------------------------------------------------------
\* C14 as stated: for a message of n bytes hashed after reset, update runs
\* floor(n/64) compressions and finalize one more when n mod 64 <= 55 and
\* two more when n mod 64 >= 56; the last compressed block has 0x80 right
\* after the message tail, zeros from there up to offset 56 and 8n
\* big-endian in bytes 56..63; no write is at buffer index 64; the digest
\* has 20 bytes.
C14_PaddingInLastBlock ==
    /\ CompressionCounts
    /\ LengthAtEnd
    /\ NoOverrunAndDigestSize
    /\ Finalized =>
          /\ LastBlock[TailLength + 1] = PAD_MARK
          /\ \A i \in (TailLength + 2)..LENGTH_OFFSET : LastBlock[i] = 0

\* C14 as the code has it: the counts, the length field, the index bound
\* and the digest size as stated; 0x80 is right after the message tail in
\* the block that holds the tail, which is the last compressed block when
\* n mod 64 <= 55 and the one before it when n mod 64 >= 56; in the second
\* case that block is zero from the mark to its end and the last block is
\* zero up to offset 56.
C14_PaddingAfterTail ==
    /\ CompressionCounts
    /\ LengthAtEnd
    /\ NoOverrunAndDigestSize
    /\ Finalized =>
          LET blocks == hash_processor.state
              count == Len(blocks)
              tail == IF TailLength <= 55 THEN blocks[count] ELSE blocks[count - 1]
              end == IF TailLength <= 55 THEN LENGTH_OFFSET ELSE HASH_BLOCK_SIZE
          IN  /\ \A i \in 1..TailLength :
                    tail[i] = MessageByte(hash_processor.message_length - TailLength + i - 1)
              /\ tail[TailLength + 1] = PAD_MARK
              /\ \A i \in (TailLength + 2)..end : tail[i] = 0
              /\ TailLength >= 56 =>
                    \A i \in 1..LENGTH_OFFSET : blocks[count][i] = 0

\* a 120-byte message: one compression in update, two in finalize
C14_Witness ==
    /\ Finalized
    /\ hash_processor.message_length = 120
    /\ Len(hash_processor.state) = 3
    /\ hash_processor.state[2][57] = PAD_MARK
    /\ hash_processor.state[3][63] = 3
    /\ hash_processor.state[3][64] = 192

C16_ConstructionCompletes ==
    /\ construction # "panicked"
    /\ construction = "returned" =>
          /\ Len(salt) = 16
          /\ \A i \in 1..16 : salt[i] = BASE_SALT[i]

\* ------------------------------------------------------------------------
\* C17: after initialize(key, nonce) with a 32-byte key and an 8-byte
\* nonce, the 16 state words (both counter words included) and the buffer
\* cursor are the ones of (key, nonce), whatever initialize and next_byte
\* calls came before; the keystream drawn after an initialize is the one
\* drawn after an earlier initialize with the same key and nonce.
C17_InitializeDeterminesState ==
    /\ (keystream.key # <<>> /\ keystream.bytes = <<>>) =>
          /\ stream_cipher.buffer_position = 64
          /\ \A i \in 0..15 :
                stream_cipher.internal_state[i] =
                    IF i = 0 THEN LeWord(101, 120, 112, 97)
                    ELSE IF i = 1 THEN LeWord(110, 100, 32, 51)
                    ELSE IF i = 2 THEN LeWord(50, 45, 98, 121)
                    ELSE IF i = 3 THEN LeWord(116, 101, 32, 107)
                    ELSE IF i <= 11
                         THEN [j \in 1..4 |-> keystream.key[4 * (i - 4) + j]]
                    ELSE IF i <= 13 THEN LeWord(0, 0, 0, 0)
                    ELSE [j \in 1..4 |-> keystream.nonce[4 * (i - 14) + j]]
    /\ (firstStream.key = keystream.key /\ firstStream.nonce = keystream.nonce) =>
          \A n \in 1..Min(Len(firstStream.bytes), Len(keystream.bytes)) :
              firstStream.bytes[n] = keystream.bytes[n]

\* the same key and nonce a second time, after bytes were drawn under
\* them and under another key in between
C17_Witness ==
    /\ firstStream.key # <<>>
    /\ firstStream.key = keystream.key
    /\ firstStream.nonce = keystream.nonce
    /\ Len(firstStream.bytes) = MaxStream
    /\ Len(keystream.bytes) = MaxStream
    /\ stream_cipher.initialization_vector = keystream.nonce

\* ------------------------------------------------------------------------
\* C18: under one key schedule encrypt_block is a bijection on 16-byte
\* blocks: two different blocks never encrypt to the same block, so the
\* CBC output can be decrypted back to the padded message.
C18_BlockTransformInjective ==
    (probe.engine = "SymmetricEncryptionEngine" /\ probe.a # probe.b)
        => probe.out_a # probe.out_b

\* ------------------------------------------------------------------------
\* Properties of process_regional_block
\* ------------------------------------------------------------------------
\* the multipliers 7 and 13 have the inverses 183 and 197 modulo 256
InverseSbox1Byte(byte) == (((byte + 256 - 11) % 256) * 183) % 256
InverseSbox2Byte(byte) == (((byte + 256 - 23) % 256) * 197) % 256

\* every byte combined with the bytes step and 2 * step after it
DiffusionStep(state, step) ==
    Array([k \in 1..Len(state) |->
              BitXor(BitXor(state[k], Ahead(state, k, step)), Ahead(state, k, 2 * step))])

\* the diffusion taken 16 times is the identity on 16 bytes, and taken 8
\* times it is the rotation by 8: its inverse is the diffusion taken 7
\* times and the rotation by 8
InverseDiffusion(state) ==
    LET spread == DiffusionStep(DiffusionStep(DiffusionStep(state, 1), 2), 4)
    IN  Array([k \in 1..Len(state) |-> Ahead(spread, k, 8)])

\* regional_add_round_key is its own inverse; the rounds are undone from
\* round down to 1
RECURSIVE InverseRegionalRounds(_, _, _)
InverseRegionalRounds(state, key, round) ==
    IF Len(state) = 0 \/ round = 0 THEN state
    ELSE LET diffused == InverseDiffusion(regional_add_round_key(state, key, round))
             substituted ==
                 Array([k \in 1..Len(state) |->
                           IF round % 2 = 1 THEN InverseSbox1Byte(diffused[k])
                           ELSE InverseSbox2Byte(diffused[k])])
         IN  InverseRegionalRounds(substituted, key, round - 1)

RegionalDecrypt(block, key) ==
    LET keyed == regional_add_round_key(block, key, REGIONAL_ROUNDS)
        substituted == Array([k \in 1..Len(block) |-> InverseSbox1Byte(keyed[k])])
    IN  regional_add_round_key(
            InverseRegionalRounds(substituted, key, REGIONAL_ROUNDS - 1), key, 0)

\* C19: under every key the block transform of RegionalComputationalEngine
\* is one-to-one on 16-byte blocks: the two substitution byte maps are
\* permutations of 0..255, the diffusion step is undone by InverseDiffusion
\* (checked on the transformed blocks and on the one-bit blocks, which
\* span all blocks because the step is linear over bits), and
\* RegionalDecrypt gives back every block that was transformed
C19_RegionalBlockBijection ==
    probe.engine = "RegionalComputationalEngine" =>
        /\ { Sbox1Byte(x) : x \in 0..255 } = 0..255
        /\ { Sbox2Byte(x) : x \in 0..255 } = 0..255
        /\ \A x \in 0..255 : /\ InverseSbox1Byte(Sbox1Byte(x)) = x
                             /\ InverseSbox2Byte(Sbox2Byte(x)) = x
        /\ \A i \in 1..REGIONAL_BLOCK_SIZE :
               InverseDiffusion(apply_regional_diffusion(UnitBlock(i))) = UnitBlock(i)
        /\ \A x \in {probe.a, probe.b, probe.out_a, probe.out_b} :
               InverseDiffusion(apply_regional_diffusion(x)) = x
        /\ RegionalDecrypt(probe.out_a, probe.key) = probe.a
        /\ RegionalDecrypt(probe.out_b, probe.key) = probe.b
        /\ probe.a # probe.b => probe.out_a # probe.out_b

\* two blocks that differ in one byte were transformed under a key and
\* came out different from one another and from their inputs
C19_Witness ==
    /\ probe.engine = "RegionalComputationalEngine"
    /\ probe.a[1] = 0 /\ probe.b[1] = 80
    /\ \A k \in 2..REGIONAL_BLOCK_SIZE : probe.a[k] = probe.b[k]
    /\ probe.out_a # probe.out_b
    /\ probe.out_a # probe.a
    /\ RegionalDecrypt(probe.out_b, probe.key) = probe.b

\* ------------------------------------------------------------------------
\* Properties of the parallel block paths
\* ------------------------------------------------------------------------
\* the number of blocks of len bytes
BlockCount(len, block_size) == (len + block_size - 1) \div block_size

\* block number i (from 0) of the data, read from the data: its bytes,
\* then the filling of the engine
InputBlock(p, i) ==
    LET block_size == EngineBlockSize(p.engine)
        have == Min(Len(p.data) - i * block_size, block_size)
    IN  [m \in 1..block_size |->
            IF m <= have THEN p.data[i * block_size + m]
            ELSE IF p.engine = "MatrixTransformationProcessor" THEN block_size - have
            ELSE 0]

\* C20: when a parallel block call of MatrixTransformationProcessor,
\* KoreanMathematicalEngine or RegionalComputationalEngine has returned,
\* however its workers were scheduled, block_size * ceil(len / block_size)
\* bytes came out (none for empty data), the bytes of block i of the
\* output are the transform of block i of the input under the key of the
\* call, and every block was taken by exactly one worker
C20_OutputInInputOrder ==
    parallel.phase = "returned" =>
        LET block_size == EngineBlockSize(parallel.engine)
            n == BlockCount(Len(parallel.data), block_size)
        IN  /\ Len(parallel.output) = block_size * n
            /\ Len(parallel.data) = 0 => parallel.output = <<>>
            /\ \A i \in 0..(n - 1) :
                   SubSeq(parallel.output, i * block_size + 1, (i + 1) * block_size)
                       = MapBlock(parallel.engine, InputBlock(parallel, i), parallel.key)
            /\ DOMAIN parallel.taken = 1..n
            /\ \A i \in 1..n : parallel.taken[i] = 1
            /\ Len(parallel.finished) = n
            /\ \A i \in 1..n : \E k \in 1..n : parallel.finished[k] = i

\* a call with three blocks, the last one short, has returned after its
\* workers finished the blocks in another order than the input's
C20_Witness ==
    /\ parallel.phase = "returned"
    /\ parallel.engine = "MatrixTransformationProcessor"
    /\ Len(parallel.data) = 33
    /\ parallel.finished = <<3, 1, 2>>
    /\ Len(parallel.output) = 48

\* ------------------------------------------------------------------------
\* Properties of the stream cipher's counter
\* ------------------------------------------------------------------------
\* a 64-bit count plus n, modulo 2^64
RECURSIVE Plus64(_, _)
Plus64(count, n) ==
    IF Len(count) = 0 \/ n = 0 THEN count ELSE Plus64(IncBytes(count, 1), n - 1)

\* words 12 and 13 of a state as one 64-bit count
Counter64(internal_state) == internal_state[12] \o internal_state[13]

\* C21: in a session of the stream cipher, words 12 and 13 of the state
\* are one 64-bit counter of the blocks generated since initialize (word 13
\* goes up exactly when word 12 wraps to 0); block k of the session is
\* generated from the state whose counter is k, so the blocks of a session
\* are generated from different counters; a block is generated exactly at
\* every 64th byte, and byte n of the keystream is byte n mod 64 of block
\* n div 64
C21_CounterCountsBlocks ==
    streamRun.phase = "drawing" =>
        LET n == streamRun.drawn
            blocks == Len(streamRun.inputs)
        IN  /\ blocks = (n + KEYSTREAM_BLOCK_SIZE - 1) \div KEYSTREAM_BLOCK_SIZE
            /\ streamRun.generated = Plus64(Count64(0, 0, 0, 0, 0, 0, 0, 0), blocks)
            /\ Counter64(stream_cipher.internal_state) = Plus64(streamRun.start, blocks)
            /\ \A k \in 1..blocks :
                   Counter64(streamRun.inputs[k]) = Plus64(streamRun.start, k - 1)
            /\ \A j, k \in 1..blocks :
                   j # k => Counter64(streamRun.inputs[j]) # Counter64(streamRun.inputs[k])
            /\ n > 0 =>
                   streamRun.last =
                       [of |-> [ks |-> StateBytes(streamRun.inputs[((n - 1) \div KEYSTREAM_BLOCK_SIZE) + 1])],
                        ix |-> ((n - 1) % KEYSTREAM_BLOCK_SIZE) + 1]

\* a session picked up at 2^32 - 2 blocks has drawn into its third block:
\* word 12 wrapped to 0 and word 13 went from 0 to 1
C21_Witness ==
    /\ streamRun.phase = "drawing"
    /\ streamRun.start = Count64(254, 255, 255, 255, 0, 0, 0, 0)
    /\ streamRun.drawn = 2 * KEYSTREAM_BLOCK_SIZE + 1
    /\ Len(streamRun.inputs) = 3
    /\ streamRun.inputs[3][12] = LeWord(0, 0, 0, 0)
    /\ streamRun.inputs[3][13] = LeWord(1, 0, 0, 0)
    /\ stream_cipher.internal_state[12] = LeWord(1, 0, 0, 0)

\* ------------------------------------------------------------------------
\* What register and encrypt leave alone
\* ------------------------------------------------------------------------
\* C22: an encrypt for a device leaves that device's patient key and
\* device id as they were and leaves every other session as it was (only
\* the counter, the stored IV and the heartbeat of the device's own session
\* may change); a register for a device leaves every other session as it
\* was; the patient key of a session changes only in a successful register
\* for its own id, and no call removes a session
C22_CallsTouchOwnSession ==
    [][ calls' = calls + 1 =>
          LET d == lastCall'.device_id
          IN  /\ \A e \in DOMAIN device_registry :
                    /\ e \in DOMAIN device_registry'
                    /\ e # d => device_registry'[e] = device_registry[e]
                    /\ device_registry'[e].patient_key # device_registry[e].patient_key
                          => (lastCall'.op = "register" /\ lastCall'.ok /\ e = d)
              /\ lastCall'.op = "encrypt" =>
                    /\ DOMAIN device_registry' = DOMAIN device_registry
                    /\ d \in DOMAIN device_registry =>
                          /\ device_registry'[d].patient_key = device_registry[d].patient_key
                          /\ device_registry'[d].device_id = device_registry[d].device_id
                          /\ device_registry'[d] =
                                [device_registry[d] EXCEPT
                                    !.encryption_counter = device_registry'[d].encryption_counter,
                                    !.session_state = device_registry'[d].session_state,
                                    !.last_heartbeat = device_registry'[d].last_heartbeat]
              /\ ~lastCall'.ok => device_registry' = device_registry ]_vars

\* two devices are registered with different keys and the last call was
\* an encrypt for one of them: its counter went up, the other's did not
C22_Witness ==
    /\ lastCall.op = "encrypt" /\ lastCall.ok
    /\ lastCall.device_id = DEV_A
    /\ DOMAIN device_registry = {DEV_A, DEV_B}
    /\ device_registry[DEV_A].patient_key # device_registry[DEV_B].patient_key
    /\ device_registry[DEV_A].encryption_counter = 1
    /\ device_registry[DEV_B].encryption_counter = 0

\* ------------------------------------------------------------------------
\* Properties of the round keys under several sessions
\* ------------------------------------------------------------------------
\* C23: whenever an encrypt has keyed the engine for a device and
\* encrypted a block, the engine holds 15 round keys and they are the ones
\* a new engine gets from that device's patient key alone, whatever the
\* array held before (the schedule of the entropy key or of another
\* session's key)
C23_ScheduleFromSessionKey ==
    encryption_engine.last.used # <<>> =>
        LET last == encryption_engine.last
        IN  /\ Len(last.used) = ROUND_KEY_COUNT
            /\ last.used = set_patient_key(ZeroRoundKeys, last.key)
            /\ last.used = key_schedule(last.key)
            /\ \A round \in 1..(ROUND_KEY_COUNT - 1), i \in 0..3 :
                   RoundKeyWord(last.used, round, i) =
                       ScheduleWord(last.used, last.key, round, i)
            /\ RoundKeyWord(last.used, 0, 0) = SubSeq(last.key, 1, 4)

\* two sessions have different keys, and the engine was keyed for one of
\* them when it held the round keys of the other
C23_Witness ==
    /\ encryption_engine.last.used # <<>>
    /\ DOMAIN encryption_engine.sessions = {DEV_A, DEV_B}
    /\ encryption_engine.sessions[DEV_A] # encryption_engine.sessions[DEV_B]
    /\ encryption_engine.last.device_id = DEV_B
    /\ encryption_engine.last.before = key_schedule(encryption_engine.sessions[DEV_A])
    /\ encryption_engine.last.used # encryption_engine.last.before

\* ------------------------------------------------------------------------
\* Properties of the use of hash processors
\* ------------------------------------------------------------------------
\* C24: in every sequence of register, encrypt and compute_medical_hash,
\* every update and every finalize on a hash processor (the module's, or
\* the one a key derivation constructs) is issued after a reset with only
\* updates in between, never after a finalize or on a processor not yet
\* reset; between operations the module's processor is new or finalized;
\* and the digest compute_medical_hash(m) returned is the one a new
\* processor gives for m, whatever was hashed before
C24_ResetUpdateFinalize ==
    /\ hashUse.issued.call \in {"update", "finalize"}
          => hashUse.issued.before \in {"reset", "updated"}
    /\ hashUse.issued.call = "finalize" => hashUse.issued.before = "updated"
    /\ hashUse.pc = "idle" =>
          /\ hashUse.phase.module \in {"new", "finalized"}
          /\ hashUse.phase.local = "none"
    /\ \A r \in hashUse.returned :
          /\ r[2] = finalize(update(NewHashProcessor, r[1])).digest
          /\ Len(r[2]) = DIGEST_OUTPUT_SIZE
    /\ \A r1, r2 \in hashUse.returned : r1[1] = r2[1] => r1[2] = r2[2]
    /\ ~hash_processor.panic

\* compute_medical_hash has returned for two payloads, the second on the
\* processor the first had finalized
C24_Witness ==
    /\ hashUse.pc = "idle"
    /\ Cardinality(hashUse.returned) = 2
    /\ hashUse.phase.module = "finalized"
    /\ hashUse.issued = [on |-> "module", call |-> "finalize", before |-> "updated"]

\* a key derivation is in its last calls: the second update of the
\* extension is issued on a processor that was updated
C24_WitnessDerive ==
    /\ hashUse.pc = "derive_patient_key"
    /\ hashUse.k = DeriveCallCount
    /\ hashUse.issued = [on |-> "local", call |-> "update", before |-> "updated"]

\* ------------------------------------------------------------------------
\* Properties of the key schedule over the key
\* ------------------------------------------------------------------------
\* C25: two 32-byte keys that agree on their bytes 0..15 give the engine
\* the same 15 round keys, wherever they differ in bytes 16..31, and so
\* the same encryption of a block
C25_ScheduleReadsFirstHalf ==
    (/\ probe.engine = "setup_key_schedule"
     /\ SubSeq(probe.key, 1, 16) = SubSeq(probe.other, 1, 16))
        => /\ Len(probe.schedule) = ROUND_KEY_COUNT
           /\ probe.schedule = probe.other_schedule
           /\ probe.out = probe.other_out

\* two keys that differ in each of their bytes 16..31 and in no other
\* were scheduled and gave the same ciphertext
C25_Witness ==
    /\ probe.engine = "setup_key_schedule"
    /\ Len(probe.key) = PATIENT_KEY_SIZE /\ Len(probe.other) = PATIENT_KEY_SIZE
    /\ \A i \in 1..16 : probe.key[i] = probe.other[i]
    /\ \A i \in 17..32 : probe.key[i] # probe.other[i]
    /\ probe.out = probe.other_out
    /\ probe.out # probe.block

====
